---------------------------- MODULE Spec2Model ----------------------------
(***************************************************************************)
(* Model of the HLK-LD2450 presence radar driver                          *)
(* (tasmota/tasmota_xsns_sensor/xsns_114_ld2450.ino): the serial frame    *)
(* decoder, the zone occupancy engine, the inactivity timeout, the        *)
(* publication tick, the persisted configuration and the commands.        *)
(*                                                                         *)
(* C arrays are functions over 0..n-1, structs are records with the       *)
(* source's field names, and every handler is one action.                 *)
(***************************************************************************)
EXTENDS Integers, Sequences, FiniteSets, TLC

(***************************************************************************)
(* Program constants                                                       *)
(***************************************************************************)
LD2450_START_DELAY == 10
LD2450_DEFAULT_TARGET_TIMEOUT == 5
LD2450_DIST_MAX == 6000
LD2450_TRACK_TIME == 5
LD2450_TRACK_OFF == 0
LD2450_TRACK_IN == 1
LD2450_TRACK_OUT == 2
LD2450_TRACK_INOUT == 3
LD2450_TARGET_MAX == 3
LD2450_MSG_SIZE_MAX == 32
LD2450_ZONE_MAX == 8
SECS_PER_DAY == 86400
\* 0x0003ffaa, the bytes AA FF 03 00 read as a little-endian uint32_t, in its
\* low and high 16-bit halves 0xffaa and 0x0003
HeaderLow == 65450
HeaderHigh == 3
\* 0xcc55: the bytes 55 CC read as a little-endian uint16_t
FooterWord == 52309
\* length of a complete data frame (header, 3 x 8 payload bytes, footer)
FrameLen == 30
\* 0x4711: start value of the configuration checksum
ChecksumSeed == 18193

Targets == 0 .. (LD2450_TARGET_MAX - 1)
Zones == 0 .. (LD2450_ZONE_MAX - 1)

\* A C array holds values: the elements of a function written [i \in S |-> e]
\* are computed once, here, instead of at every later application.
Array(f) == [f EXCEPT ![CHOOSE i \in DOMAIN f : TRUE] = @]

(***************************************************************************)
(* Integer widths                                                          *)
(***************************************************************************)
UInt8(v) == v % 256
UInt16(v) == v % 65536
Int16(v) == LET m == v % 65536 IN IF m >= 32768 THEN m - 65536 ELSE m

\* C integer division truncates toward zero
CDiv(a, b) == IF a >= 0 THEN a \div b ELSE 0 - ((0 - a) \div b)

\* *(uint16_t *)(arr + off) on the little-endian target
LE16(arr, off) == arr[off] + 256 * arr[off + 1]
\* the header constant written in the order of the bytes on the wire
HeaderMatchBigEndian(arr) ==
  (arr[3] + 256 * arr[2] = HeaderLow) /\ (arr[1] + 256 * arr[0] = HeaderHigh)
\* *(uint32_t *)arr == 0x0003ffaa, compared half by half
HeaderMatch(arr) == (LE16(arr, 0) = HeaderLow) /\ (LE16(arr, 2) = HeaderHigh)
\* *(int16_t *)(arr + off)
ReadInt16(arr, off) == Int16(LE16(arr, off))

(***************************************************************************)
(* Target decoding (LD2450ReceiveData, lines 560-582)                      *)
(***************************************************************************)
\* if (v < 0) v = 0 - v - 32768;
SignMagnitude(v) == IF v < 0 THEN Int16(0 - v - 32768) ELSE v

\* x decoded like the speed, without the change of sign
DecodeXNotNegated(arr, start) == SignMagnitude(ReadInt16(arr, start))
\* x: sign-magnitude, then x *= -1
DecodeX(arr, start) == Int16(SignMagnitude(ReadInt16(arr, start)) * (-1))
\* y: sign-magnitude, then y = 0 - y
DecodeY(arr, start) == Int16(0 - SignMagnitude(ReadInt16(arr, start + 2)))
\* speed: sign-magnitude only
DecodeSpeed(arr, start) == SignMagnitude(ReadInt16(arr, start + 4))

\* largest d in lo..hi with d*d <= n: sqrt() of a non-negative double, truncated
RECURSIVE SqrtFloor(_, _, _)
SqrtFloor(n, lo, hi) ==
  IF lo >= hi THEN lo
  ELSE LET mid == (lo + hi + 1) \div 2
       IN IF mid * mid <= n THEN SqrtFloor(n, mid, hi) ELSE SqrtFloor(n, lo, mid - 1)

\* (uint16_t)sqrt(pow(x, 2) + pow(y, 2))
\* the sum of the two magnitudes in place of the root
TargetDistManhattan(x, y) ==
  UInt16((IF x < 0 THEN 0 - x ELSE x) + (IF y < 0 THEN 0 - y ELSE y))

TargetDist(x, y) == UInt16(SqrtFloor(x * x + y * y, 0, 46340))

(***************************************************************************)
(* Configuration (lines 118-126, 209-226, 346-457)                         *)
(***************************************************************************)
\* rows 2..6 of Settings->rf_code[17][9], the rows this driver uses
RfRows == 2 .. ((LD2450_ZONE_MAX \div 2) + 2)
RfCols == 0 .. 8

\* row and column of a zone's first byte: pos += 4 per zone, and
\* "if (pos >= 7) { pos = 0; row++; }" after every second zone
ZoneRow(zone) == 3 + (zone \div 2)
ZonePos(zone) == 4 * (zone % 2)

\* the zones are checked but the scalar settings are left as they are
CheckConfigZonesOnly(cfg) ==
  LET cx1(z) == IF cfg.zone_x1[z] < 0 - LD2450_DIST_MAX THEN 0 - LD2450_DIST_MAX ELSE cfg.zone_x1[z]
      cx2(z) == IF cfg.zone_x2[z] > LD2450_DIST_MAX THEN LD2450_DIST_MAX ELSE cfg.zone_x2[z]
      cy1(z) == IF cfg.zone_y1[z] < 0 THEN 0 ELSE cfg.zone_y1[z]
      cy2(z) == IF cfg.zone_y2[z] > LD2450_DIST_MAX THEN LD2450_DIST_MAX ELSE cfg.zone_y2[z]
  IN [cfg EXCEPT
        !.zone_x1 = Array([z \in Zones |-> IF cx1(z) > cx2(z) THEN cx2(z) ELSE cx1(z)]),
        !.zone_x2 = Array([z \in Zones |-> IF cx1(z) > cx2(z) THEN Int16(UInt16(cx1(z))) ELSE cx2(z)]),
        !.zone_y1 = Array([z \in Zones |-> IF cy1(z) > cy2(z) THEN cy2(z) ELSE cy1(z)]),
        !.zone_y2 = Array([z \in Zones |-> IF cy1(z) > cy2(z) THEN Int16(UInt16(cy1(z))) ELSE cy2(z)])]

LD2450CheckConfig(cfg) ==
  LET scal == [cfg EXCEPT
                 !.tracktime = IF @ = 0 THEN LD2450_TRACK_TIME ELSE @,
                 !.trackmode = IF @ > LD2450_TRACK_INOUT THEN LD2450_TRACK_IN ELSE @,
                 !.sensortimeout = IF @ = 0 THEN LD2450_DEFAULT_TARGET_TIMEOUT ELSE @]
      cx1(z) == IF cfg.zone_x1[z] < 0 - LD2450_DIST_MAX THEN 0 - LD2450_DIST_MAX ELSE cfg.zone_x1[z]
      cx2(z) == IF cfg.zone_x2[z] > LD2450_DIST_MAX THEN LD2450_DIST_MAX ELSE cfg.zone_x2[z]
      cy1(z) == IF cfg.zone_y1[z] < 0 THEN 0 ELSE cfg.zone_y1[z]
      cy2(z) == IF cfg.zone_y2[z] > LD2450_DIST_MAX THEN LD2450_DIST_MAX ELSE cfg.zone_y2[z]
  IN [scal EXCEPT
        !.zone_x1 = Array([z \in Zones |-> IF cx1(z) > cx2(z) THEN cx2(z) ELSE cx1(z)]),
        !.zone_x2 = Array([z \in Zones |-> IF cx1(z) > cx2(z) THEN Int16(UInt16(cx1(z))) ELSE cx2(z)]),
        !.zone_y1 = Array([z \in Zones |-> IF cy1(z) > cy2(z) THEN cy2(z) ELSE cy1(z)]),
        !.zone_y2 = Array([z \in Zones |-> IF cy1(z) > cy2(z) THEN Int16(UInt16(cy1(z))) ELSE cy2(z)])]

\* sum of the bytes from &rf_code[2][2] to &rf_code[6][7], in a uint16_t
RECURSIVE ChecksumFrom(_, _, _)
ChecksumFrom(rf, row, col) ==
  LET last == (row = (LD2450_ZONE_MAX \div 2) + 2) /\ (col = 7)
  IN IF last THEN rf[row][col]
     ELSE rf[row][col] + (IF col = 8 THEN ChecksumFrom(rf, row + 1, 0)
                                     ELSE ChecksumFrom(rf, row, col + 1))

\* the sum starts at the first zone byte and leaves the scalar settings out
ChecksumZonesOnly(rf) == UInt16(ChecksumSeed + ChecksumFrom(rf, 3, 0))

LD2450ConfigChecksum(rf) == UInt16(ChecksumSeed + ChecksumFrom(rf, 2, 2))

\* the offset of 128 is left out
PackBoundNoOffset(mm) == UInt8(CDiv(mm, 100))

\* (uint8_t)((mm / 100) + 128)
PackBound(mm) == UInt8(CDiv(mm, 100) + 128)
\* ((int16_t)byte - 128) * 100
UnpackBound(byte) == Int16((byte - 128) * 100)

\* result: the checked runtime configuration and the record written to flash
LD2450SaveConfig(cfg, rf) ==
  LET c == LD2450CheckConfig(cfg)
      zoneOf(row, col) == 2 * (row - 3) + (col \div 4)
      data == Array([row \in RfRows |-> Array([col \in RfCols |->
                 IF row = 2 THEN
                      (CASE col = 2 -> c.tracktime
                         [] col = 3 -> c.trackmode
                         [] col = 4 -> c.sensortimeout
                         [] OTHER -> rf[row][col])
                 ELSE IF col = 8 THEN rf[row][col]
                 ELSE (CASE col % 4 = 0 -> PackBound(c.zone_x1[zoneOf(row, col)])
                         [] col % 4 = 1 -> PackBound(c.zone_x2[zoneOf(row, col)])
                         [] col % 4 = 2 -> PackBound(c.zone_y1[zoneOf(row, col)])
                         [] OTHER -> PackBound(c.zone_y2[zoneOf(row, col)]))])])
      checksum == LD2450ConfigChecksum(data)
  IN [config |-> c,
      rf_code |-> [data EXCEPT ![2][0] = UInt8(checksum \div 256),
                               ![2][1] = UInt8(checksum)]]

\* every zone is given the whole range
ConfigResetAllZonesFull(cfg, rf) ==
  LD2450SaveConfig(
    [zone_x1 |-> Array([z \in Zones |-> 0 - LD2450_DIST_MAX]),
     zone_x2 |-> Array([z \in Zones |-> LD2450_DIST_MAX]),
     zone_y1 |-> Array([z \in Zones |-> 0]),
     zone_y2 |-> Array([z \in Zones |-> LD2450_DIST_MAX]),
     tracktime |-> LD2450_TRACK_TIME,
     trackmode |-> LD2450_TRACK_IN,
     sensortimeout |-> LD2450_DEFAULT_TARGET_TIMEOUT], rf)

LD2450ConfigReset(cfg, rf) ==
  LD2450SaveConfig(
    [zone_x1 |-> Array([z \in Zones |-> IF z = 0 THEN 0 - LD2450_DIST_MAX ELSE 0]),
     zone_x2 |-> Array([z \in Zones |-> IF z = 0 THEN LD2450_DIST_MAX ELSE 0]),
     zone_y1 |-> Array([z \in Zones |-> 0]),
     zone_y2 |-> Array([z \in Zones |-> IF z = 0 THEN LD2450_DIST_MAX ELSE 0]),
     tracktime |-> LD2450_TRACK_TIME,
     trackmode |-> LD2450_TRACK_IN,
     sensortimeout |-> LD2450_DEFAULT_TARGET_TIMEOUT], rf)

LD2450LoadConfig(cfg, rf) ==
  LET checksum == rf[2][0] * 256 + rf[2][1]
      s == IF checksum # LD2450ConfigChecksum(rf) THEN LD2450ConfigReset(cfg, rf)
           ELSE [config |-> cfg, rf_code |-> rf]
      r == s.rf_code
      read == [zone_x1 |-> Array([z \in Zones |-> UnpackBound(r[ZoneRow(z)][ZonePos(z)])]),
               zone_x2 |-> Array([z \in Zones |-> UnpackBound(r[ZoneRow(z)][ZonePos(z) + 1])]),
               zone_y1 |-> Array([z \in Zones |-> UnpackBound(r[ZoneRow(z)][ZonePos(z) + 2])]),
               zone_y2 |-> Array([z \in Zones |-> UnpackBound(r[ZoneRow(z)][ZonePos(z) + 3])]),
               tracktime |-> r[2][2],
               trackmode |-> r[2][3],
               sensortimeout |-> r[2][4]]
  IN [config |-> LD2450CheckConfig(read), rf_code |-> r]

\* the configuration struct's initializers (lines 118-126)
ConfigInitializer ==
  [zone_x1 |-> Array([z \in Zones |-> IF z = 0 THEN 0 - LD2450_DIST_MAX ELSE 0]),
   zone_x2 |-> Array([z \in Zones |-> IF z = 0 THEN LD2450_DIST_MAX ELSE 0]),
   zone_y1 |-> Array([z \in Zones |-> 0]),
   zone_y2 |-> Array([z \in Zones |-> IF z = 0 THEN LD2450_DIST_MAX ELSE 0]),
   tracktime |-> LD2450_TRACK_TIME,
   trackmode |-> LD2450_TRACK_IN,
   sensortimeout |-> LD2450_DEFAULT_TARGET_TIMEOUT]

zoneEnabled(cfg, zone) ==
  ~((cfg.zone_x1[zone] = 0) /\ (cfg.zone_x2[zone] = 0) /\
    (cfg.zone_y1[zone] = 0) /\ (cfg.zone_y2[zone] = 0))

(***************************************************************************)
(* State                                                                   *)
(***************************************************************************)
VARIABLES
  ld2450_received,   \* timestamp, idx_body, arr_body[32], arr_last[4]
  ld2450_config,     \* runtime configuration
  ld2450_status,     \* pserial (TRUE: not nullptr), enabled, counter, pubtimestamp, lastsensortime
  ld2450_zone,       \* per zone: target_in_zone[3], target_in_zone_old[3]
  ld2450_target,     \* per target: x, y, speed, dist, in_zone
  rf_code,           \* Settings->rf_code rows 2..6: the persisted record
  localtime,         \* value returned by LocalTime() [s]
  uptime,            \* TasmotaGlobal.uptime [s]
  ev,                \* the last handler that ran and what it did (observation only)
  wire               \* the frame the sensor is sending and how far it got (environment)

vars == <<ld2450_received, ld2450_config, ld2450_status, ld2450_zone,
          ld2450_target, rf_code, localtime, uptime, ev, wire>>

\* millis(): milliseconds since boot
Millis(up) == up * 1000

(***************************************************************************)
(* Targets and zones (lines 486-500, 560-619)                              *)
(***************************************************************************)
\* the targets are reset but the zones' current occupancy is left
InitTargetsKeepsOccupancy(eng, markaschanged) ==
  [eng EXCEPT
     !.target = Array([index \in Targets |->
                   [x |-> 0, y |-> 0, speed |-> 0, dist |-> 0, in_zone |-> FALSE]]),
     !.zone = Array([zone \in Zones |->
                 [target_in_zone |-> eng.zone[zone].target_in_zone,
                  target_in_zone_old |-> Array([index \in Targets |-> markaschanged])]]),
     !.counter = 0]

\* the occupancy is reset but never marked as changed
InitTargetsNeverMarked(eng, markaschanged) ==
  [eng EXCEPT
     !.target = Array([index \in Targets |->
                   [x |-> 0, y |-> 0, speed |-> 0, dist |-> 0, in_zone |-> FALSE]]),
     !.zone = Array([zone \in Zones |->
                 [target_in_zone |-> Array([index \in Targets |-> FALSE]),
                  target_in_zone_old |-> Array([index \in Targets |-> FALSE])]]),
     !.counter = 0]

\* the part of the driver state that LD2450InitTargets and the receive loop write
LD2450InitTargets(eng, markaschanged) ==
  [eng EXCEPT
     !.target = Array([index \in Targets |->
                   [x |-> 0, y |-> 0, speed |-> 0, dist |-> 0, in_zone |-> FALSE]]),
     !.zone = Array([zone \in Zones |->
                 [target_in_zone |-> Array([index \in Targets |-> FALSE]),
                  target_in_zone_old |-> Array([index \in Targets |-> markaschanged])]]),
     !.counter = 0]

\* the y bounds compared with x, too
InsideZoneXOnly(cfg, zone, x, y) ==
  ((x >= cfg.zone_x1[zone]) /\ (x <= cfg.zone_x2[zone])) /\
  ((x >= cfg.zone_y1[zone]) /\ (x <= cfg.zone_y2[zone]))

\* a target on a bound is outside
InsideZoneStrict(cfg, zone, x, y) ==
  ((x > cfg.zone_x1[zone]) /\ (x < cfg.zone_x2[zone])) /\
  ((y > cfg.zone_y1[zone]) /\ (y < cfg.zone_y2[zone]))

\* lines 595-596
InsideZone(cfg, zone, x, y) ==
  ((x >= cfg.zone_x1[zone]) /\ (x <= cfg.zone_x2[zone])) /\
  ((y >= cfg.zone_y1[zone]) /\ (y <= cfg.zone_y2[zone]))

\* an absent target keeps its occupancy
DetectZoneKeepsAbsent(cfg, zn, zone, index, tg) ==
  IF tg.dist > 0 THEN
    IF ~zoneEnabled(cfg, zone) THEN FALSE
    ELSE LET published == (zn[zone].target_in_zone[index] = zn[zone].target_in_zone_old[index])
         IN IF published THEN InsideZone(cfg, zone, tg.x, tg.y)
            ELSE zn[zone].target_in_zone[index]
  ELSE zn[zone].target_in_zone[index]

\* the containment result is written whether the last change was published or not
DetectZoneNoDebounce(cfg, zn, zone, index, tg) ==
  IF tg.dist > 0 THEN
    IF ~zoneEnabled(cfg, zone) THEN FALSE
    ELSE InsideZone(cfg, zone, tg.x, tg.y)
  ELSE FALSE

\* an unpublished change is taken back by the next frame
DetectZoneRevertsUnpublished(cfg, zn, zone, index, tg) ==
  IF tg.dist > 0 THEN
    IF ~zoneEnabled(cfg, zone) THEN FALSE
    ELSE LET published == (zn[zone].target_in_zone[index] = zn[zone].target_in_zone_old[index])
         IN IF published THEN InsideZone(cfg, zone, tg.x, tg.y)
            ELSE zn[zone].target_in_zone_old[index]
  ELSE FALSE

\* value of ld2450_zone[zone].target_in_zone[index] after target index of a
\* frame was evaluated (lines 585-605)
DetectZone(cfg, zn, zone, index, tg) ==
  IF tg.dist > 0 THEN
    IF ~zoneEnabled(cfg, zone) THEN FALSE
    ELSE LET published == (zn[zone].target_in_zone[index] = zn[zone].target_in_zone_old[index])
         IN IF published THEN InsideZone(cfg, zone, tg.x, tg.y)
            ELSE zn[zone].target_in_zone[index]
  ELSE FALSE

\* one target record of the frame in arr_body (lines 562-582)
DecodeTarget(arr, index) ==
  LET start == 4 + index * 8
      x == DecodeX(arr, start)
      y == DecodeY(arr, start)
  IN [x |-> x, y |-> y, speed |-> DecodeSpeed(arr, start), dist |-> TargetDist(x, y)]

\* target counter and per-target in_zone (lines 608-619)
TargetInAnyZone(zn, index) == \E zone \in Zones : zn[zone].target_in_zone[index]
\* one count for every zone a target is in
TargetCounterPerZone(zn) ==
  UInt8(Cardinality({p \in Zones \X Targets : zn[p[1]].target_in_zone[p[2]]}))
TargetCounter(zn) == UInt8(Cardinality({index \in Targets : TargetInAnyZone(zn, index)}))

\* the message is decoded but the body is not emptied
DecodeFrameKeepsBody(eng, cfg, now) ==
  LET arr == eng.received.arr_body
      dec == Array([index \in Targets |-> DecodeTarget(arr, index)])
      zn == Array([zone \in Zones |->
               [eng.zone[zone] EXCEPT
                  !.target_in_zone = Array([index \in Targets |->
                      DetectZone(cfg, eng.zone, zone, index, dec[index])])]])
  IN [eng EXCEPT
        !.target = Array([index \in Targets |->
                      [x |-> dec[index].x, y |-> dec[index].y, speed |-> dec[index].speed,
                       dist |-> dec[index].dist, in_zone |-> TargetInAnyZone(zn, index)]]),
        !.zone = zn,
        !.counter = TargetCounter(zn),
        !.lastsensortime = IF \E index \in Targets : dec[index].dist > 0 THEN now ELSE @,
        !.batches = @ + 1]

\* a complete data message in arr_body (lines 560-622)
DecodeFrame(eng, cfg, now) ==
  LET arr == eng.received.arr_body
      dec == Array([index \in Targets |-> DecodeTarget(arr, index)])
      zn == Array([zone \in Zones |->
               [eng.zone[zone] EXCEPT
                  !.target_in_zone = Array([index \in Targets |->
                      DetectZone(cfg, eng.zone, zone, index, dec[index])])]])
  IN [eng EXCEPT
        !.target = Array([index \in Targets |->
                      [x |-> dec[index].x, y |-> dec[index].y, speed |-> dec[index].speed,
                       dist |-> dec[index].dist, in_zone |-> TargetInAnyZone(zn, index)]]),
        !.zone = zn,
        !.counter = TargetCounter(zn),
        !.lastsensortime = IF \E index \in Targets : dec[index].dist > 0 THEN now ELSE @,
        !.received.idx_body = 0,
        !.batches = @ + 1]

(***************************************************************************)
(* Frame decoder (LD2450ReceiveData, lines 534-628)                        *)
(***************************************************************************)
\* the header is copied but the index is left where it was
HeaderRestartKeepsIndex(got) ==
  [got EXCEPT !.arr_body = Array([i \in 0 .. (LD2450_MSG_SIZE_MAX - 1) |->
                              IF i < 4 THEN got.arr_last[i] ELSE got.arr_body[i]])]

\* start of a new message (lines 556-558): the header is copied to the start of
\* the body and the index placed behind it
HeaderRestart(got) ==
  [got EXCEPT !.arr_body = Array([i \in 0 .. (LD2450_MSG_SIZE_MAX - 1) |->
                              IF i < 4 THEN got.arr_last[i] ELSE got.arr_body[i]]),
              !.idx_body = 4]

\* the character is appended while the index is not beyond the capacity
ReceiveCharAppendsAtCapacity(eng, cfg, recv_data, up, now) ==
  IF ~(up > LD2450_START_DELAY) THEN eng
  ELSE
    LET r == eng.received
        body == IF r.idx_body <= LD2450_MSG_SIZE_MAX
                  THEN [r.arr_body EXCEPT ![r.idx_body] = recv_data] ELSE r.arr_body
        idx == IF r.idx_body <= LD2450_MSG_SIZE_MAX THEN r.idx_body + 1 ELSE r.idx_body
        last == Array([i \in 0 .. 3 |-> IF i < 3 THEN r.arr_last[i + 1] ELSE recv_data])
        got == [timestamp |-> Millis(up), idx_body |-> idx, arr_body |-> body,
                arr_last |-> last]
    IN IF HeaderMatch(last) THEN [eng EXCEPT !.received = HeaderRestart(got)]
       ELSE IF (idx = FrameLen) /\ (LE16(last, 2) = FooterWord) THEN
         DecodeFrame([eng EXCEPT !.received = got], cfg, now)
       ELSE [eng EXCEPT !.received = got]

\* a body of 30 bytes is decoded whatever its last two bytes are
ReceiveCharIgnoresFooter(eng, cfg, recv_data, up, now) ==
  IF ~(up > LD2450_START_DELAY) THEN eng
  ELSE
    LET r == eng.received
        body == IF r.idx_body < LD2450_MSG_SIZE_MAX
                  THEN [r.arr_body EXCEPT ![r.idx_body] = recv_data] ELSE r.arr_body
        idx == IF r.idx_body < LD2450_MSG_SIZE_MAX THEN r.idx_body + 1 ELSE r.idx_body
        last == Array([i \in 0 .. 3 |-> IF i < 3 THEN r.arr_last[i + 1] ELSE recv_data])
        got == [timestamp |-> Millis(up), idx_body |-> idx, arr_body |-> body,
                arr_last |-> last]
    IN IF HeaderMatch(last) THEN [eng EXCEPT !.received = HeaderRestart(got)]
       ELSE IF idx = FrameLen THEN
         DecodeFrame([eng EXCEPT !.received = got], cfg, now)
       ELSE [eng EXCEPT !.received = got]

\* one pass of the receive loop: one character read from the serial port
ReceiveChar(eng, cfg, recv_data, up, now) ==
  IF ~(up > LD2450_START_DELAY) THEN eng
  ELSE
    LET r == eng.received
        body == IF r.idx_body < LD2450_MSG_SIZE_MAX
                  THEN [r.arr_body EXCEPT ![r.idx_body] = recv_data] ELSE r.arr_body
        idx == IF r.idx_body < LD2450_MSG_SIZE_MAX THEN r.idx_body + 1 ELSE r.idx_body
        last == Array([i \in 0 .. 3 |-> IF i < 3 THEN r.arr_last[i + 1] ELSE recv_data])
        got == [timestamp |-> Millis(up), idx_body |-> idx, arr_body |-> body,
                arr_last |-> last]
    IN IF HeaderMatch(last) THEN [eng EXCEPT !.received = HeaderRestart(got)]
       ELSE IF (idx = FrameLen) /\ (LE16(last, 2) = FooterWord) THEN
         DecodeFrame([eng EXCEPT !.received = got], cfg, now)
       ELSE [eng EXCEPT !.received = got]

\* the receive loop over the characters available on the serial port; each pass
\* works on the state the pass before it left (next), computed before the
\* loop goes on
RECURSIVE ReceiveLoop(_, _, _, _, _)
ReceiveLoop(eng, cfg, data, up, now) ==
  IF data = <<>> THEN eng
  ELSE CHOOSE out \in {ReceiveLoop(next, cfg, Tail(data), up, now) :
                         next \in {ReceiveChar(eng, cfg, Head(data), up, now)}} : TRUE

\* the driver state the receive loop and LD2450InitTargets work on
Engine ==
  [received |-> ld2450_received, target |-> ld2450_target, zone |-> ld2450_zone,
   counter |-> ld2450_status.counter, lastsensortime |-> ld2450_status.lastsensortime,
   batches |-> 0]

NoEvent ==
  [op |-> "init", batches |-> 0, idx_before |-> 0, fired |-> FALSE, emitted |-> FALSE,
   targets |-> {}, zones |-> {}, response |-> <<>>, timedout |-> FALSE,
   repeat |-> FALSE, repaired |-> FALSE]

\* timedout tells that the inactivity timeout has fired and no frame with a
\* target has been decoded since; a handler leaves it unless it says otherwise.
\* repeat tells that the handler decoded a frame with the bytes of the frame the
\* handler before it decoded.  repaired tells that LD2450LoadConfig found the
\* checksum wrong and wrote the defaults
Event == [NoEvent EXCEPT !.timedout = ev.timedout]

\* Xsns114(FUNC_LOOP) with the characters of data available
LD2450ReceiveData(data) ==
  /\ ld2450_status.enabled
  /\ ld2450_status.pserial
  /\ \E eng \in {ReceiveLoop(Engine, ld2450_config, data, uptime, localtime)} :
        /\ ld2450_received' = eng.received
        /\ ld2450_target' = eng.target
        /\ ld2450_zone' = eng.zone
        /\ ld2450_status' = [ld2450_status EXCEPT !.counter = eng.counter,
                                                  !.lastsensortime = eng.lastsensortime]
        /\ ev' = [Event EXCEPT
                   !.op = "receive", !.batches = eng.batches,
                   !.idx_before = ld2450_received.idx_body,
                   !.repeat = (ev.op = "receive") /\ (ev.batches = 1) /\ (eng.batches = 1) /\
                              (eng.received.arr_body = ld2450_received.arr_body),
                   !.timedout = @ /\ ~((eng.batches > 0) /\
                                       (\E index \in Targets : eng.target[index].dist > 0))]
  /\ UNCHANGED <<ld2450_config, rf_code, localtime, uptime>>

(***************************************************************************)
(* Publication tick (lines 631-733)                                        *)
(***************************************************************************)
checkForZoneChanges(zn) ==
  \E index \in Targets : \E zone \in Zones :
     zn[zone].target_in_zone[index] # zn[zone].target_in_zone_old[index]

\* the timeout is due already when the time is up
SensorTimeoutDueAtLimit(st, cfg, now) == st.lastsensortime + cfg.sensortimeout <= now
\* the condition of the inactivity timeout (line 644)
SensorTimeoutDue(st, cfg, now) == st.lastsensortime + cfg.sensortimeout < now

\* result: the engine after the timeout check and whether the timeout fired
checkForTargetSensorTimeout(eng, cfg, now) ==
  IF SensorTimeoutDue(eng, cfg, now) THEN
    [eng EXCEPT
       !.lastsensortime = now + SECS_PER_DAY,
       !.counter = 0,
       !.target = Array([index \in Targets |-> [@[index] EXCEPT !.in_zone = FALSE]]),
       !.zone = Array([zone \in Zones |->
                   [@[zone] EXCEPT !.target_in_zone = Array([index \in Targets |-> FALSE])]]),
       !.batches = 1]
  ELSE eng

\* mode IN publishes on the period whether a target is in a zone or not
PeriodicPublishIgnoresCounter(cfg, pubtimestamp, counter, now) ==
  /\ cfg.trackmode # LD2450_TRACK_OFF
  /\ pubtimestamp + cfg.tracktime < now

\* the periodic part of the publication decision (lines 671-683)
PeriodicPublish(cfg, pubtimestamp, counter, now) ==
  /\ cfg.trackmode # LD2450_TRACK_OFF
  /\ pubtimestamp + cfg.tracktime < now
  /\ \/ (cfg.trackmode = LD2450_TRACK_IN) /\ (counter > 0)
     \/ cfg.trackmode = LD2450_TRACK_OUT
     \/ cfg.trackmode = LD2450_TRACK_INOUT

\* the targets listed by an emission (lines 694-709)
PublishedTargets(cfg, tg) ==
  {index \in Targets :
     \/ (cfg.trackmode = LD2450_TRACK_IN) /\ tg[index].in_zone
     \/ cfg.trackmode = LD2450_TRACK_OUT
     \/ cfg.trackmode = LD2450_TRACK_INOUT}

\* every zone with a target in it is listed
ChangedZonesListsOccupied(zn) ==
  {zone \in Zones : \E index \in Targets : zn[zone].target_in_zone[index]}

\* the zones listed by an emission (lines 711-718)
ChangedZones(zn) ==
  {zone \in Zones : \E index \in Targets :
     zn[zone].target_in_zone[index] # zn[zone].target_in_zone_old[index]}

\* the emission leaves the previous occupancy as it was
LD2450ShowJSONKeepsPrevious ==
  /\ ld2450_status.enabled
  /\ ld2450_status.pserial
  /\ \E eng \in {checkForTargetSensorTimeout(Engine, ld2450_config, localtime)} :
     \E fired \in {eng.batches = 1} :
     \E publish_target \in {fired \/ PeriodicPublish(ld2450_config,
                                ld2450_status.pubtimestamp, eng.counter, localtime)} :
     \E publish_zone \in {checkForZoneChanges(eng.zone)} :
     \E emit \in {publish_zone \/ publish_target} :
        /\ ld2450_target' = eng.target
        /\ ld2450_zone' = eng.zone
        /\ ld2450_status' = [ld2450_status EXCEPT
              !.counter = eng.counter,
              !.lastsensortime = eng.lastsensortime,
              !.pubtimestamp = IF emit THEN localtime ELSE @]
        /\ ev' = [Event EXCEPT
              !.op = "showjson", !.fired = fired, !.emitted = emit,
              !.timedout = @ \/ fired,
              !.targets = IF emit THEN PublishedTargets(ld2450_config, eng.target) ELSE {},
              !.zones = IF emit THEN ChangedZones(eng.zone) ELSE {}]
  /\ UNCHANGED <<ld2450_received, ld2450_config, rf_code, localtime, uptime>>

\* Xsns114(FUNC_JSON_APPEND): LD2450ShowJSON(true)
LD2450ShowJSON ==
  /\ ld2450_status.enabled
  /\ ld2450_status.pserial
  /\ \E eng \in {checkForTargetSensorTimeout(Engine, ld2450_config, localtime)} :
     \E fired \in {eng.batches = 1} :
     \E publish_target \in {fired \/ PeriodicPublish(ld2450_config,
                                ld2450_status.pubtimestamp, eng.counter, localtime)} :
     \E publish_zone \in {checkForZoneChanges(eng.zone)} :
     \E emit \in {publish_zone \/ publish_target} :
        /\ ld2450_target' = eng.target
        /\ ld2450_zone' =
             IF emit THEN Array([zone \in Zones |->
                             [eng.zone[zone] EXCEPT
                                !.target_in_zone_old = eng.zone[zone].target_in_zone]])
             ELSE eng.zone
        /\ ld2450_status' = [ld2450_status EXCEPT
              !.counter = eng.counter,
              !.lastsensortime = eng.lastsensortime,
              !.pubtimestamp = IF emit THEN localtime ELSE @]
        /\ ev' = [Event EXCEPT
              !.op = "showjson", !.fired = fired, !.emitted = emit,
              !.timedout = @ \/ fired,
              !.targets = IF emit THEN PublishedTargets(ld2450_config, eng.target) ELSE {},
              !.zones = IF emit THEN ChangedZones(eng.zone) ELSE {}]
  /\ UNCHANGED <<ld2450_received, ld2450_config, rf_code, localtime, uptime>>

(***************************************************************************)
(* Commands (lines 180-287).  A command's data is the sequence of its      *)
(* comma separated tokens, each already converted by atoi().  A handler's  *)
(* local variable is a value bound by \E over a one-element set.           *)
(***************************************************************************)
Respond(op, values) == [Event EXCEPT !.op = op, !.response = values]

\* ld2450_timeout
CmdLD2450SensorTimeout(payload) ==
  /\ \E s \in {IF payload > 0
                  THEN LD2450SaveConfig([ld2450_config EXCEPT !.sensortimeout = UInt8(payload)],
                                        rf_code)
                  ELSE [config |-> ld2450_config, rf_code |-> rf_code]} :
        /\ ld2450_config' = s.config
        /\ rf_code' = s.rf_code
        /\ ev' = Respond("timeout", <<s.config.sensortimeout>>)
  /\ UNCHANGED <<ld2450_received, ld2450_status, ld2450_zone, ld2450_target,
                 localtime, uptime>>

\* ld2450_track
CmdLD2450Track(tokens) ==
  /\ \E set \in {IF Len(tokens) > 0
                    THEN LD2450SaveConfig(
                           [ld2450_config EXCEPT
                              !.tracktime = UInt8(tokens[1]),
                              !.trackmode = IF Len(tokens) > 1 THEN UInt8(tokens[2]) ELSE @],
                           rf_code)
                    ELSE [config |-> ld2450_config, rf_code |-> rf_code]} :
     \E s \in {LD2450LoadConfig(set.config, set.rf_code)} :
        /\ ld2450_config' = s.config
        /\ rf_code' = s.rf_code
        /\ ev' = Respond("track", <<s.config.tracktime, s.config.trackmode>>)
  /\ UNCHANGED <<ld2450_received, ld2450_status, ld2450_zone, ld2450_target,
                 localtime, uptime>>

\* the driver state with the engine part replaced
SetEngine(eng) ==
  /\ ld2450_target' = eng.target
  /\ ld2450_zone' = eng.zone
  /\ ld2450_status' = [ld2450_status EXCEPT !.counter = eng.counter]

\* ld2450_reset
CmdLD2450Reset ==
  /\ \E s \in {LD2450ConfigReset(ld2450_config, rf_code)} :
        /\ ld2450_config' = s.config
        /\ rf_code' = s.rf_code
        /\ SetEngine(LD2450InitTargets(Engine, TRUE))
        /\ ev' = Respond("reset", <<1, s.config.zone_x1[0], s.config.zone_x2[0],
                                    s.config.zone_y1[0], s.config.zone_y2[0]>>)
  /\ UNCHANGED <<ld2450_received, localtime, uptime>>

\* the token loop of ld2450_zone (lines 249-271)
RECURSIVE ZoneTokens(_, _, _, _)
ZoneTokens(cfg, zone, count, tokens) ==
  IF ~((zone < LD2450_ZONE_MAX) /\ (tokens # <<>>))
    THEN [config |-> cfg, zone |-> zone, count |-> count]
  ELSE LET v == Head(tokens)
           c == CASE count = 1 -> [cfg EXCEPT !.zone_x1[zone] = Int16(v)]
                  [] count = 2 -> [cfg EXCEPT !.zone_x2[zone] = Int16(v)]
                  [] count = 3 -> [cfg EXCEPT !.zone_y1[zone] = Int16(v)]
                  [] count = 4 -> [cfg EXCEPT !.zone_y2[zone] = Int16(v)]
                  [] OTHER -> cfg
           z == IF count = 0 THEN UInt8(v - 1) ELSE zone
       IN ZoneTokens(c, z, count + 1, Tail(tokens))

\* ld2450_zone without the reload that precedes its answer
CmdLD2450ZoneKeepsRuntime(tokens) ==
  /\ \E p \in {ZoneTokens(ld2450_config, 0, 0, tokens)} :
     \E commit \in {(p.zone < LD2450_ZONE_MAX) /\ (p.count = 5)} :
     \E s \in {IF commit THEN LD2450SaveConfig(p.config, rf_code)
               ELSE [config |-> p.config, rf_code |-> rf_code]} :
     \E wrong \in {((p.count # 5) /\ (p.count # 1)) \/ (p.zone >= LD2450_ZONE_MAX)} :
        /\ ld2450_config' = s.config
        /\ rf_code' = s.rf_code
        /\ IF commit THEN SetEngine(LD2450InitTargets(Engine, TRUE))
           ELSE UNCHANGED <<ld2450_target, ld2450_zone, ld2450_status>>
        /\ ev' = IF wrong THEN Respond("zone", <<>>)
                 ELSE Respond("zone", <<p.zone + 1, s.config.zone_x1[p.zone],
                                        s.config.zone_x2[p.zone], s.config.zone_y1[p.zone],
                                        s.config.zone_y2[p.zone]>>)
  /\ UNCHANGED <<ld2450_received, localtime, uptime>>

\* ld2450_zone
CmdLD2450Zone(tokens) ==
  /\ \E p \in {ZoneTokens(ld2450_config, 0, 0, tokens)} :
     \E commit \in {(p.zone < LD2450_ZONE_MAX) /\ (p.count = 5)} :
     \E saved \in {IF commit THEN LD2450SaveConfig(p.config, rf_code)
                   ELSE [config |-> p.config, rf_code |-> rf_code]} :
     \E s \in {LD2450LoadConfig(saved.config, saved.rf_code)} :
     \E wrong \in {((p.count # 5) /\ (p.count # 1)) \/ (p.zone >= LD2450_ZONE_MAX)} :
        /\ ld2450_config' = s.config
        /\ rf_code' = s.rf_code
        /\ IF commit THEN SetEngine(LD2450InitTargets(Engine, TRUE))
           ELSE UNCHANGED <<ld2450_target, ld2450_zone, ld2450_status>>
        /\ ev' = IF wrong THEN Respond("zone", <<>>)
                 ELSE Respond("zone", <<p.zone + 1, s.config.zone_x1[p.zone],
                                        s.config.zone_x2[p.zone], s.config.zone_y1[p.zone],
                                        s.config.zone_y2[p.zone]>>)
  /\ UNCHANGED <<ld2450_received, localtime, uptime>>

(***************************************************************************)
(* Environment: the clock, the sensor's frames, the stored record          *)
(***************************************************************************)
\* the clock is explored for MaxSteps short steps after each of MaxDays days
MaxSteps == 3
MaxDays == 1

\* the time that passes between two handlers: just over the start delay, or a day
ShortStep == LD2450_START_DELAY + 1
ClockSteps == {ShortStep, SECS_PER_DAY}

\* d seconds pass between two handlers
ClockAdvance(d) ==
  /\ (localtime + d) \div SECS_PER_DAY <= MaxDays
  /\ (localtime + d) % SECS_PER_DAY <= MaxSteps * ShortStep
  /\ localtime' = localtime + d
  /\ uptime' = uptime + d
  /\ ev' = [Event EXCEPT !.op = "clock"]
  /\ UNCHANGED <<ld2450_received, ld2450_config, ld2450_status, ld2450_zone,
                 ld2450_target, rf_code>>

Word(w) == <<w % 256, w \div 256>>
\* a target record from its three raw 16-bit words, with the resolution word 360
Record(xw, yw, sw) == Word(xw) \o Word(yw) \o Word(sw) \o Word(360)
FrameOf(r0, r1, r2) == <<170, 255, 3, 0>> \o r0 \o r1 \o r2 \o <<85, 204>>

RecAbsent == <<0, 0, 0, 0, 0, 0, 0, 0>>
\* x = -377, y = 466, speed 0
RecA == Record(377, 32768 + 466, 0)
\* x = 500, y = 2000, speed -16
RecB == Record(32768 + 500, 32768 + 2000, 32768 + 16)
\* x = 0, y = -100, speed 16: behind the sensor, inside no zone
RecC == Record(0, 100, 16)

Frames ==
  {FrameOf(r0, r1, r2) : r0 \in {RecAbsent, RecA, RecC},
                          r1 \in {RecAbsent, RecB}, r2 \in {RecAbsent}}

ZoneCommands ==
  {<<2, -1000, 0, 0, 1000>>, <<2, 0, 0, 0, 0>>, <<1, 0, 0, 0, 0>>,
   <<2>>, <<9, 1, 2, 3, 4>>, <<2, 100, 200>>}
TrackCommands == {<<1, 3>>, <<>>}
\* the timeout that makes one short clock step the boundary of the timeout
TimeoutCommands == {0, ShortStep}

BlankRecord == Array([row \in RfRows |-> Array([col \in RfCols |-> 0])])
\* a record saved by an earlier run: zone 2 around target A, timeout 1 s, mode off
StoredRecord ==
  LD2450SaveConfig([ConfigInitializer EXCEPT
                      !.zone_x1[1] = -1000, !.zone_y2[1] = 1000,
                      !.sensortimeout = 1, !.tracktime = 1,
                      !.trackmode = LD2450_TRACK_OFF], BlankRecord).rf_code
BootRecords == {BlankRecord, StoredRecord}

\* the outcomes of Ld2450Detect (lines 460-473): pins not configured, begin()
\* failed, begin() succeeded
DetectOutcomes ==
  {[pserial |-> FALSE, enabled |-> FALSE], [pserial |-> TRUE, enabled |-> FALSE],
   [pserial |-> TRUE, enabled |-> TRUE]}

(***************************************************************************)
(* Specification                                                           *)
(***************************************************************************)
\* timestamp = UINT32_MAX is written -1, its value as a signed 32-bit integer
ReceivedInitializer ==
  [timestamp |-> -1, idx_body |-> 0,
   arr_body |-> Array([i \in 0 .. (LD2450_MSG_SIZE_MAX - 1) |-> 0]),
   arr_last |-> Array([i \in 0 .. 3 |-> 0])]

\* no frame on the wire yet
Idle ==
  [sent |-> 0, pos |-> 0, from |-> 0, clean |-> TRUE, live |-> TRUE, batches |-> 0,
   faults |-> 0]

\* the state LD2450Init leaves (lines 503-513), for a stored record and a
\* detect outcome; the zone array is zero before, as static storage is
InitWith(boot, detect) ==
  LET s == LD2450LoadConfig(ConfigInitializer, boot)
      eng == LD2450InitTargets(
               [target |-> <<>>, counter |-> 0,
                zone |-> Array([zone \in Zones |->
                           [target_in_zone |-> Array([index \in Targets |-> FALSE]),
                            target_in_zone_old |-> Array([index \in Targets |-> FALSE])]])],
               FALSE)
  IN /\ ld2450_received = ReceivedInitializer
     /\ ld2450_config = s.config
     /\ rf_code = s.rf_code
     /\ ld2450_target = eng.target
     /\ ld2450_zone = eng.zone
     /\ ld2450_status = [pserial |-> detect.pserial, enabled |-> detect.enabled,
                         counter |-> eng.counter, pubtimestamp |-> 0, lastsensortime |-> 0]
     /\ localtime = 0
     /\ uptime = 0
     /\ ev = NoEvent
     /\ wire = Idle

Init == \E boot \in BootRecords : \E detect \in DetectOutcomes : InitWith(boot, detect)

\* the handlers, with whole frames arriving between two calls of the receive loop
Next ==
  /\ \/ \E data \in Frames : LD2450ReceiveData(data)
     \/ LD2450ShowJSON
     \/ ClockAdvance(ShortStep) /\ ~(uptime > LD2450_START_DELAY)
     \/ \E tokens \in ZoneCommands : CmdLD2450Zone(tokens)
     \/ CmdLD2450Reset
  /\ UNCHANGED wire

Spec == Init /\ [][Next]_vars

\* frames with two targets and with none, a zone edit, a reset and the tick
NextFair ==
  /\ \/ \E data \in {FrameOf(RecA, RecB, RecAbsent),
                      FrameOf(RecAbsent, RecAbsent, RecAbsent)} : LD2450ReceiveData(data)
     \/ LD2450ShowJSON
     \/ ClockAdvance(ShortStep) /\ ~(uptime > LD2450_START_DELAY)
     \/ CmdLD2450Zone(<<2, -1000, 0, 0, 1000>>)
     \/ CmdLD2450Reset
  /\ UNCHANGED wire

\* the handlers with the tick taken again and again: FUNC_EVERY_100_MSECOND
\* calls the publication every 100 ms for as long as the firmware runs
SpecFair == Init /\ [][NextFair]_vars /\ WF_vars(LD2450ShowJSON /\ UNCHANGED wire)

\* frames and silence over more than a day
InitTimeout == InitWith(BlankRecord, [pserial |-> TRUE, enabled |-> TRUE])

NextTimeout ==
  /\ \/ \E data \in {FrameOf(RecA, RecAbsent, RecAbsent),
                      FrameOf(RecAbsent, RecAbsent, RecAbsent)} : LD2450ReceiveData(data)
     \/ LD2450ShowJSON
     \/ \E d \in ClockSteps : ClockAdvance(d)
     \/ \E payload \in TimeoutCommands : CmdLD2450SensorTimeout(payload)
  /\ UNCHANGED wire

SpecTimeout == InitTimeout /\ [][NextTimeout]_vars

\* the publication modes and periods: the tick decides on mode, period and counter
PeriodCommands ==
  {<<ShortStep, LD2450_TRACK_OFF>>, <<ShortStep, LD2450_TRACK_IN>>,
   <<LD2450_TRACK_TIME, LD2450_TRACK_OUT>>, <<ShortStep, LD2450_TRACK_INOUT>>}

InitPublish == InitWith(BlankRecord, [pserial |-> TRUE, enabled |-> TRUE])

NextPublish ==
  /\ \/ \E data \in {FrameOf(RecA, RecAbsent, RecAbsent), FrameOf(RecC, RecAbsent, RecAbsent),
                      FrameOf(RecAbsent, RecAbsent, RecAbsent)} : LD2450ReceiveData(data)
     \/ LD2450ShowJSON
     \/ ClockAdvance(ShortStep)
     \/ \E tokens \in PeriodCommands : CmdLD2450Track(tokens)
  /\ UNCHANGED wire

SpecPublish == InitPublish /\ [][NextPublish]_vars

\* ld2450_zone with arguments of every kind: bounds that are no multiples of
\* 100 mm, inverted bounds, bounds beyond the range of the stored byte, a zone
\* number beyond 8 bits, zone numbers 0 and 9, too few and too many fields
ConfigZoneCommands ==
  {<<1, -1550, 1550, 250, 3000>>, <<2, 3000, -3000, 4000, 1000>>,
   <<2, 12800, 0, 0, 1000>>, <<2, 0, 0, 20000, 0>>,
   <<257, 100, 200, 300, 400>>, <<0, 1, 2, 3, 4>>, <<9, 1, 2, 3, 4>>,
   <<2, 100, 200>>, <<1, 1, 2, 3, 4, 5>>, <<>>, <<2>>}
\* ld2450_timeout with payloads that are not positive
RejectedTimeouts == {-1, 0}

InitConfig == \E boot \in BootRecords : InitWith(boot, [pserial |-> TRUE, enabled |-> TRUE])

\* the zone commands, with a target in zone 1 and its publication
NextConfig ==
  /\ \/ \E tokens \in ConfigZoneCommands : CmdLD2450Zone(tokens)
     \/ CmdLD2450Reset
     \/ \E payload \in RejectedTimeouts : CmdLD2450SensorTimeout(payload)
     \/ LD2450ReceiveData(FrameOf(RecA, RecAbsent, RecAbsent))
     \/ LD2450ShowJSON
     \/ ClockAdvance(ShortStep) /\ ~(uptime > LD2450_START_DELAY)
  /\ UNCHANGED wire

SpecConfig == InitConfig /\ [][NextConfig]_vars

\* ld2450_timeout with payloads that are not positive or beyond 8 bits
ScalarTimeoutCommands == {-1, 0, 256, 300}
\* ld2450_track with values CheckConfig replaces (0, mode 7), beyond 8 bits, alone
ScalarTrackCommands == {<<0, 7>>, <<256, 258>>, <<7>>, <<ShortStep, LD2450_TRACK_OFF>>, <<>>}

\* the commands that write the scalar settings
NextScalar ==
  /\ \/ \E payload \in ScalarTimeoutCommands : CmdLD2450SensorTimeout(payload)
     \/ \E tokens \in ScalarTrackCommands : CmdLD2450Track(tokens)
     \/ \E tokens \in {<<2, -1000, 0, 0, 1000>>, <<2>>, <<2, 100, 200>>} : CmdLD2450Zone(tokens)
     \/ CmdLD2450Reset
  /\ UNCHANGED wire

SpecScalar == Init /\ [][NextScalar]_vars

\* number of corrupted bytes and cut frames explored in one run
MaxFaults == 1

\* LD2450SaveConfig and LD2450LoadConfig on their own: the runtime
\* configurations they are applied to, and a stored byte that changes
StoreConfigs ==
  {[ConfigInitializer EXCEPT
      !.zone_x1[0] = x1, !.zone_y1[0] = y1,
      !.zone_x1[7] = 0 - last, !.zone_x2[7] = last, !.zone_y2[7] = 2 * last,
      !.sensortimeout = scalars[1], !.tracktime = scalars[2], !.trackmode = scalars[3]] :
     x1 \in {0 - LD2450_DIST_MAX, -1550, -300}, y1 \in {0, 250}, last \in {0, 100},
     scalars \in {<<LD2450_DEFAULT_TARGET_TIMEOUT, LD2450_TRACK_TIME, LD2450_TRACK_IN>>,
                  <<255, 1, LD2450_TRACK_OFF>>}}

\* the bytes of the record: the checksum and the bytes it sums
RecordBytes ==
  {p \in RfRows \X RfCols :
     ~((p[1] = (LD2450_ZONE_MAX \div 2) + 2) /\ (p[2] = 8))}

InitStore ==
  \E c \in StoreConfigs :
     LET eng == LD2450InitTargets(
                  [target |-> <<>>, counter |-> 0,
                   zone |-> Array([zone \in Zones |->
                              [target_in_zone |-> Array([index \in Targets |-> FALSE]),
                               target_in_zone_old |-> Array([index \in Targets |-> FALSE])]])],
                  FALSE)
     IN /\ ld2450_received = ReceivedInitializer
        /\ ld2450_config = c
        /\ rf_code = BlankRecord
        /\ ld2450_target = eng.target
        /\ ld2450_zone = eng.zone
        /\ ld2450_status = [pserial |-> TRUE, enabled |-> TRUE,
                            counter |-> eng.counter, pubtimestamp |-> 0, lastsensortime |-> 0]
        /\ localtime = 0
        /\ uptime = 0
        /\ ev = NoEvent
        /\ wire = Idle

\* LD2450SaveConfig()
SaveConfigStep ==
  /\ \E s \in {LD2450SaveConfig(ld2450_config, rf_code)} :
        /\ ld2450_config' = s.config
        /\ rf_code' = s.rf_code
  /\ ev' = [Event EXCEPT !.op = "save"]
  /\ UNCHANGED <<ld2450_received, ld2450_status, ld2450_zone, ld2450_target,
                 localtime, uptime, wire>>

\* LD2450LoadConfig()
LoadConfigStep ==
  /\ \E s \in {LD2450LoadConfig(ld2450_config, rf_code)} :
        /\ ld2450_config' = s.config
        /\ rf_code' = s.rf_code
  /\ ev' = [Event EXCEPT
              !.op = "load",
              !.repaired = (rf_code[2][0] * 256 + rf_code[2][1] # LD2450ConfigChecksum(rf_code))]
  /\ UNCHANGED <<ld2450_received, ld2450_status, ld2450_zone, ld2450_target,
                 localtime, uptime, wire>>

\* one byte of a record that was written or read changes by d
RecordByteChanges(row, col, d) ==
  /\ wire.faults < MaxFaults
  /\ ev.op \in {"save", "load"}
  /\ rf_code' = [rf_code EXCEPT ![row][col] = UInt8(@ + d)]
  /\ wire' = [wire EXCEPT !.faults = @ + 1]
  /\ ev' = [Event EXCEPT !.op = "change"]
  /\ UNCHANGED <<ld2450_received, ld2450_config, ld2450_status, ld2450_zone,
                 ld2450_target, localtime, uptime>>

NextStore ==
  \/ SaveConfigStep
  \/ LoadConfigStep
  \/ CmdLD2450Reset /\ UNCHANGED wire
  \/ \E p \in RecordBytes : \E d \in {1, 128, 255} : RecordByteChanges(p[1], p[2], d)

SpecStore == InitStore /\ [][NextStore]_vars

\* The callbacks of Xsns114 (lines 1040-1059) with the tests they make before
\* they call a handler; a callback that calls nothing leaves the driver alone
Skipped(op) ==
  /\ ev' = [Event EXCEPT !.op = op]
  /\ UNCHANGED <<ld2450_received, ld2450_config, ld2450_status, ld2450_zone,
                 ld2450_target, rf_code, localtime, uptime>>

\* a driver that is not enabled tries the detection again
FuncLoopRetriesDetect(data) ==
  IF ld2450_status.enabled THEN LD2450ReceiveData(data)
  ELSE /\ ld2450_status' = [ld2450_status EXCEPT !.pserial = TRUE, !.enabled = TRUE]
       /\ ev' = [Event EXCEPT !.op = "loop"]
       /\ UNCHANGED <<ld2450_received, ld2450_config, ld2450_zone, ld2450_target,
                      rf_code, localtime, uptime>>

\* FUNC_LOOP
FuncLoop(data) ==
  IF ld2450_status.enabled THEN LD2450ReceiveData(data) ELSE Skipped("loop")

\* FUNC_JSON_APPEND
FuncJsonAppend ==
  IF ld2450_status.enabled THEN LD2450ShowJSON ELSE Skipped("json")

\* FUNC_EVERY_100_MSECOND: Ld2450Publish (lines 475-480), whose
\* MqttPublishSensor() calls the drivers' FUNC_JSON_APPEND
FuncEvery100Msecond ==
  IF (uptime > 4) /\ ld2450_status.enabled THEN LD2450ShowJSON ELSE Skipped("publish")

\* the driver with and without its sensor
InitAbsent == \E detect \in DetectOutcomes : InitWith(BlankRecord, detect)

NextAbsent ==
  /\ \/ \E data \in {FrameOf(RecA, RecAbsent, RecAbsent)} : FuncLoop(data)
     \/ FuncJsonAppend
     \/ FuncEvery100Msecond
     \/ ClockAdvance(ShortStep)
     \/ CmdLD2450Zone(<<2, -1000, 0, 0, 1000>>)
  /\ UNCHANGED wire

SpecAbsent == InitAbsent /\ [][NextAbsent]_vars

\* raw x and y words of a target record: the smallest magnitudes, the largest
\* one (32767) with either sign bit, and values whose root has a fraction
\* above one half
DistWords == {0, 1, 2, 3, 32767, 32768 + 2, 65535}

InitDist == InitWith(BlankRecord, [pserial |-> TRUE, enabled |-> TRUE])

\* frames with one target at every pair of the raw words
NextDist ==
  /\ \/ \E xw \in DistWords : \E yw \in DistWords :
          LD2450ReceiveData(FrameOf(Record(xw, yw, 0), RecAbsent, RecAbsent))
     \/ ClockAdvance(ShortStep) /\ ~(uptime > LD2450_START_DELAY)
  /\ UNCHANGED wire

SpecDist == InitDist /\ [][NextDist]_vars

\* a record saved by an earlier run: zone 2 is [-1000, 500] x [200, 1000]
EdgeRecord ==
  LD2450SaveConfig([ConfigInitializer EXCEPT
                      !.zone_x1[1] = -1000, !.zone_x2[1] = 500,
                      !.zone_y1[1] = 200, !.zone_y2[1] = 1000], BlankRecord).rf_code
\* the corners (x1,y1) and (x2,y2) of zone 2, the points 1 mm beyond each of its
\* four bounds, and a point on the lower bound of zone 1
EdgePoints ==
  {<<-1000, 200>>, <<500, 1000>>, <<-1001, 200>>, <<-1000, 199>>, <<501, 1000>>,
   <<500, 1001>>, <<-6000, 0>>}
\* the raw word of a coordinate: the magnitude, with bit 15 set for a value
\* that is decoded as not negative
WordOf(v) == IF v >= 0 THEN 32768 + v ELSE 0 - v

InitEdge == InitWith(EdgeRecord, [pserial |-> TRUE, enabled |-> TRUE])

\* frames with one target at an edge point, published by the tick
NextEdge ==
  /\ \/ \E p \in EdgePoints :
          LD2450ReceiveData(FrameOf(Record(WordOf(p[1]), WordOf(p[2]), 0),
                                    RecAbsent, RecAbsent))
     \/ LD2450ShowJSON
     \/ ClockAdvance(ShortStep) /\ ~(uptime > LD2450_START_DELAY)
  /\ UNCHANGED wire

SpecEdge == InitEdge /\ [][NextEdge]_vars

(***************************************************************************)
(* The serial line byte by byte: the sensor sends frames back to back, a   *)
(* byte of a frame may arrive corrupted, a frame may be cut short.         *)
(***************************************************************************)
\* the frames on the wire, each with the target values of its first record
WireFrames ==
  <<[bytes |-> FrameOf(RecA, RecAbsent, RecAbsent), x |-> -377, y |-> 466, speed |-> 0],
    [bytes |-> FrameOf(RecC, RecAbsent, RecAbsent), x |-> 0, y |-> -100, speed |-> 16]>>

\* bytes that replace a byte of a frame
NoiseBytes == {0, 204}

\* the wire when the next byte is byte pos + 1 of frame sent: a new frame starts
\* after a complete or a cut frame; from is the fill level of the body then
WireNext(sent) ==
  IF (wire.pos = 0) \/ (wire.pos = FrameLen)
    THEN [wire EXCEPT !.sent = sent, !.pos = 0, !.from = ld2450_received.idx_body,
                      !.clean = TRUE, !.live = TRUE, !.batches = 0]
    ELSE wire

\* the receive loop takes one byte c that the wire w delivers
TakeByte(w, c, clean) ==
  /\ LD2450ReceiveData(<<c>>)
  /\ wire' = [w EXCEPT !.pos = @ + 1,
                       !.clean = @ /\ clean,
                       !.live = @ /\ (uptime > LD2450_START_DELAY),
                       !.batches = @ + ev'.batches,
                       !.faults = IF clean THEN @ ELSE @ + 1]

\* the next byte of the frame arrives
FrameByte(sent) ==
  /\ (wire.pos = 0) \/ (wire.pos = FrameLen) \/ (sent = wire.sent)
  /\ \E w \in {WireNext(sent)} : TakeByte(w, WireFrames[w.sent].bytes[w.pos + 1], TRUE)

\* the next byte of the frame arrives as c; the byte is one of the header or
\* the footer (a changed payload byte is one more payload)
CorruptByte(sent, c) ==
  /\ wire.faults < MaxFaults
  /\ (wire.pos = 0) \/ (wire.pos = FrameLen) \/ (sent = wire.sent)
  /\ \E w \in {WireNext(sent)} :
        /\ (w.pos < 4) \/ (w.pos >= FrameLen - 2)
        /\ c # WireFrames[w.sent].bytes[w.pos + 1]
        /\ TakeByte(w, c, FALSE)

\* the rest of the frame never arrives
CutFrame ==
  /\ wire.faults < MaxFaults
  /\ (wire.pos > 0) /\ (wire.pos < FrameLen)
  /\ wire' = [wire EXCEPT !.pos = 0, !.clean = FALSE, !.faults = @ + 1]
  /\ ev' = [Event EXCEPT !.op = "cut"]
  /\ UNCHANGED <<ld2450_received, ld2450_config, ld2450_status, ld2450_zone,
                 ld2450_target, rf_code, localtime, uptime>>

InitBytes == InitWith(BlankRecord, [pserial |-> TRUE, enabled |-> TRUE])

NextBytes ==
  \/ \E sent \in DOMAIN WireFrames : FrameByte(sent)
  \/ \E sent \in DOMAIN WireFrames : \E c \in NoiseBytes : CorruptByte(sent, c)
  \/ CutFrame
  \/ ClockAdvance(ShortStep) /\ ~(uptime > LD2450_START_DELAY) /\ UNCHANGED wire

SpecBytes == InitBytes /\ [][NextBytes]_vars

(***************************************************************************)
(* Properties of the frame decoder                                         *)
(***************************************************************************)
\* the header AA FF 03 00 in stream order
HeaderBytes == <<170, 255, 3, 0>>

\* C1: whenever the last four characters taken in are the header AA FF 03 00,
\* the body holds exactly these four bytes: the fill level is 4 and the first
\* four body bytes are the header, whatever the fill level was before (empty,
\* partial or at capacity).
C1_HeaderRestartsBody ==
  (\A i \in 0 .. 3 : ld2450_received.arr_last[i] = HeaderBytes[i + 1]) =>
     /\ ld2450_received.idx_body = 4
     /\ \A i \in 0 .. 3 : ld2450_received.arr_body[i] = HeaderBytes[i + 1]

\* C1 witness: the header completed while the body was at capacity
C1_RestartFromFullBody ==
  /\ ev.op = "receive"
  /\ ev.idx_before = LD2450_MSG_SIZE_MAX
  /\ \A i \in 0 .. 3 : ld2450_received.arr_last[i] = HeaderBytes[i + 1]
  /\ ld2450_received.idx_body = 4

\* the first target holds the values the frame on the wire was built from
FirstTargetFromFrame ==
  /\ ld2450_target[0].x = WireFrames[wire.sent].x
  /\ ld2450_target[0].y = WireFrames[wire.sent].y
  /\ ld2450_target[0].speed = WireFrames[wire.sent].speed

\* C2 as stated: from every decoder state, the 30 bytes of a well-formed frame
\* give exactly one decoded batch, on the last byte, built from that frame.
C2_FrameAlwaysDecoded ==
  ((wire.pos = FrameLen) /\ wire.clean) =>
     (wire.batches = 1) /\ (ev.batches = 1) /\ FirstTargetFromFrame

\* C2 amended: from every decoder state, the 30 bytes of a well-formed frame,
\* all taken in after the start delay (uptime > LD2450_START_DELAY), give
\* exactly one decoded batch, on the last byte, built from that frame.
C2_FrameDecodedAfterStartDelay ==
  ((wire.pos = FrameLen) /\ wire.clean /\ wire.live) =>
     (wire.batches = 1) /\ (ev.batches = 1) /\ FirstTargetFromFrame

\* C2 witness: a well-formed frame was decoded that started with the body at
\* capacity
C2_DecodedFromFullBody ==
  /\ wire.pos = FrameLen
  /\ wire.clean
  /\ wire.live
  /\ wire.from = LD2450_MSG_SIZE_MAX
  /\ ev.batches = 1

(***************************************************************************)
(* Properties of target decoding and zone detection                        *)
(***************************************************************************)
\* the handler that ran last was the receive loop and it decoded one frame,
\* which is still in the body
FrameDecoded(e) == (e.op = "receive") /\ (e.batches = 1)

\* the raw 16-bit word of a field (0: x, 1: y, 2: speed) of a target's record
RawWord(index, field) == LE16(ld2450_received.arr_body, 4 + 8 * index + 2 * field)

\* a raw word read as int16_t v and decoded as v when v >= 0, as -v - 32768
\* when v < 0 (bit 15 set)
Decoded(w) == IF w >= 32768 THEN 0 - (w - 32768) ELSE w

\* C3 as stated: x and speed are the decoded raw values, only y is negated.
C3_OnlyYNegated ==
  FrameDecoded(ev) =>
    \A index \in Targets :
       /\ ld2450_target[index].x = Decoded(RawWord(index, 0))
       /\ ld2450_target[index].y = 0 - Decoded(RawWord(index, 1))
       /\ ld2450_target[index].speed = Decoded(RawWord(index, 2))

\* C3 amended: speed is the decoded raw value, x and y are both the negated
\* decoded raw values; the raw x word 377 (bit 15 clear) gives x = -377.
C3_XAndYNegated ==
  FrameDecoded(ev) =>
    \A index \in Targets :
       /\ ld2450_target[index].x = 0 - Decoded(RawWord(index, 0))
       /\ ld2450_target[index].y = 0 - Decoded(RawWord(index, 1))
       /\ ld2450_target[index].speed = Decoded(RawWord(index, 2))
       /\ (RawWord(index, 0) = 377) => (ld2450_target[index].x = -377)

\* C3 witness: a frame with the raw x word 377 and a negative speed was decoded
C3_DecodedMinus377 ==
  /\ FrameDecoded(ev)
  /\ RawWord(0, 0) = 377
  /\ ld2450_target[0].x = -377
  /\ ld2450_target[1].x = 500
  /\ ld2450_target[1].speed = -16

\* C4: after a decoded frame a target with dist = 0 is in no zone, whatever
\* the zones' current and previous occupancy were, and is not counted.
C4_AbsentTargetInNoZone ==
  FrameDecoded(ev) =>
    \A index \in Targets :
       (ld2450_target[index].dist = 0) =>
          /\ \A zone \in Zones : ~ld2450_zone[zone].target_in_zone[index]
          /\ ~ld2450_target[index].in_zone
          /\ ld2450_status.counter =
               Cardinality({t \in Targets \ {index} : ld2450_target[t].in_zone})

\* C4 witness: the target was published in a zone and the frame reports it absent
C4_PublishedTargetAbsent ==
  /\ FrameDecoded(ev)
  /\ ld2450_target[0].dist = 0
  /\ ld2450_zone[0].target_in_zone_old[0]
  /\ ld2450_status.pubtimestamp > 0

\* the rectangle test of a zone, bounds included
InRectangle(zone, x, y) ==
  /\ ld2450_config.zone_x1[zone] <= x
  /\ x <= ld2450_config.zone_x2[zone]
  /\ ld2450_config.zone_y1[zone] <= y
  /\ y <= ld2450_config.zone_y2[zone]

\* a zone whose four bounds are all zero
AllZero(zone) ==
  /\ ld2450_config.zone_x1[zone] = 0
  /\ ld2450_config.zone_x2[zone] = 0
  /\ ld2450_config.zone_y1[zone] = 0
  /\ ld2450_config.zone_y2[zone] = 0

\* C5 as stated: after a decoded frame every target with dist > 0 inside an
\* enabled zone is occupied and counted.
C5_InsideMeansOccupied ==
  FrameDecoded(ev) =>
    \A index \in Targets :
       ((ld2450_target[index].dist > 0) /\
        (\E zone \in Zones : ~AllZero(zone) /\
            InRectangle(zone, ld2450_target[index].x, ld2450_target[index].y))) =>
          ld2450_target[index].in_zone /\ (ld2450_status.counter > 0)

\* C5 amended: a decoded frame marks a target with dist > 0 occupied and counts
\* it when it lies inside an enabled zone whose occupancy by this target was
\* published (current = previous) or already true before the frame; the target
\* at x = -377, y = 466 has dist 599.
C5_InsidePublishedZoneMeansOccupied ==
  [][FrameDecoded(ev') =>
       \A index \in Targets :
          /\ ((ld2450_target'[index].dist > 0) /\
              (\E zone \in Zones :
                  /\ ~AllZero(zone)
                  /\ InRectangle(zone, ld2450_target'[index].x, ld2450_target'[index].y)
                  /\ \/ ld2450_zone[zone].target_in_zone[index] =
                          ld2450_zone[zone].target_in_zone_old[index]
                     \/ ld2450_zone[zone].target_in_zone[index])) =>
                ld2450_target'[index].in_zone /\ (ld2450_status'.counter > 0)
          /\ ((ld2450_target'[index].x = -377) /\ (ld2450_target'[index].y = 466)) =>
                (ld2450_target'[index].dist = 599)]_vars

\* C5 witness: the target at (-377, 466) in the default zone, occupied, dist 599
C5_ExampleTargetOccupied ==
  /\ FrameDecoded(ev)
  /\ ld2450_target[0].x = -377
  /\ ld2450_target[0].y = 466
  /\ ld2450_target[0].dist = 599
  /\ ld2450_config.zone_x1[0] = 0 - LD2450_DIST_MAX
  /\ ld2450_config.zone_y2[0] = LD2450_DIST_MAX
  /\ ld2450_zone[0].target_in_zone[0]
  /\ ld2450_target[0].in_zone
  /\ ld2450_status.counter = 1

C7_AggregatesConsistent ==
  /\ \A index \in Targets :
        ld2450_target[index].in_zone <=>
          (\E zone \in Zones : ld2450_zone[zone].target_in_zone[index])
  /\ ld2450_status.counter = Cardinality({index \in Targets : ld2450_target[index].in_zone})
  /\ ld2450_status.counter \in 0 .. LD2450_TARGET_MAX

\* C7 witness: one target in two zones, another target in one zone
C7_TwoTargetsThreePairs ==
  /\ ld2450_status.counter = 2
  /\ ld2450_zone[0].target_in_zone[0]
  /\ ld2450_zone[1].target_in_zone[0]
  /\ ld2450_zone[0].target_in_zone[1]

\* C10: a decoded frame leaves the current occupancy of a target with dist > 0
\* in an enabled zone as it was when it differed from the previous occupancy,
\* and sets it to the result of the rectangle test when the two were equal.
C10_Debounce ==
  [][FrameDecoded(ev') =>
       \A index \in Targets : \A zone \in Zones :
          ((ld2450_target'[index].dist > 0) /\ ~AllZero(zone)) =>
             ld2450_zone'[zone].target_in_zone[index] =
               IF ld2450_zone[zone].target_in_zone[index] #
                    ld2450_zone[zone].target_in_zone_old[index]
                 THEN ld2450_zone[zone].target_in_zone[index]
                 ELSE InRectangle(zone, ld2450_target'[index].x,
                                  ld2450_target'[index].y)]_vars

\* C10 witness: a frame left a target out of an enabled zone that contains the
\* position it reports
C10_UnpublishedChangeKept ==
  /\ FrameDecoded(ev)
  /\ ld2450_target[0].dist > 0
  /\ ~AllZero(0)
  /\ InRectangle(0, ld2450_target[0].x, ld2450_target[0].y)
  /\ ~ld2450_zone[0].target_in_zone[0]
  /\ ld2450_zone[0].target_in_zone_old[0]

(***************************************************************************)
(* Properties of the inactivity timeout                                    *)
(***************************************************************************)
\* C8: a tick at a time later than lastsensortime + sensortimeout clears every
\* zone's current occupancy and every target's in_zone flag, sets the counter
\* to 0 and moves lastsensortime one day past the time of the tick; a tick at
\* any other time leaves all of them; a decoded frame with a target of
\* dist > 0 sets lastsensortime to the time of the frame.
C8_InactivityTimeout ==
  [][/\ (ev'.op = "showjson") =>
          IF localtime > ld2450_status.lastsensortime + ld2450_config.sensortimeout
            THEN /\ \A zone \in Zones : \A index \in Targets :
                       ~ld2450_zone'[zone].target_in_zone[index]
                 /\ \A index \in Targets : ~ld2450_target'[index].in_zone
                 /\ ld2450_status'.counter = 0
                 /\ ld2450_status'.lastsensortime = localtime + SECS_PER_DAY
            ELSE /\ \A zone \in Zones :
                       ld2450_zone'[zone].target_in_zone = ld2450_zone[zone].target_in_zone
                 /\ \A index \in Targets :
                       ld2450_target'[index].in_zone = ld2450_target[index].in_zone
                 /\ ld2450_status'.counter = ld2450_status.counter
                 /\ ld2450_status'.lastsensortime = ld2450_status.lastsensortime
     /\ (FrameDecoded(ev') /\ (\E index \in Targets : ld2450_target'[index].dist > 0)) =>
          (ld2450_status'.lastsensortime = localtime)]_vars

\* C8 witness: the timeout fired on a tick and cleared a zone that had been
\* published as occupied
C8_TimeoutClearedZone ==
  /\ ev.op = "showjson"
  /\ ev.fired
  /\ ev.zones # {}
  /\ ld2450_target[0].dist > 0
  /\ ld2450_status.counter = 0
  /\ ld2450_status.lastsensortime = localtime + SECS_PER_DAY

\* C9: once the timeout has fired, no tick fires it again before a frame with
\* a target of dist > 0 has been decoded.
C9_NoSecondTimeout ==
  [][(ev.timedout /\ (ev'.op = "showjson")) => ~ev'.fired]_vars

(***************************************************************************)
(* Properties of the publication tick and of repeated frames               *)
(***************************************************************************)
\* C11 as stated: after the second of two identical frames decoded one after
\* the other no (target, zone) pair has current # previous
C11_NoChangeAfterSecondFrame == ev.repeat => ~checkForZoneChanges(ld2450_zone)

\* C11: the second of two identical frames decoded one after the other leaves
\* current and previous of every (target, zone) pair, the targets and the
\* counter as the first frame left them, so it adds no zone change: the pairs
\* with current # previous after it are those the first frame left unpublished
C11_SecondFrameChangesNothing ==
  [][ev'.repeat =>
        /\ ld2450_zone' = ld2450_zone
        /\ ld2450_target' = ld2450_target
        /\ ld2450_status'.counter = ld2450_status.counter
        /\ checkForZoneChanges(ld2450_zone') = checkForZoneChanges(ld2450_zone)]_vars

\* a second identical frame was decoded while the first frame's change is unpublished
C11_RepeatWithPendingChange ==
  /\ ev.repeat
  /\ checkForZoneChanges(ld2450_zone)
  /\ \E index \in Targets : ld2450_target[index].in_zone

\* the decision of the tick on the state the tick starts from: a pair with
\* current # previous, or the period over and the mode permitting
GateOpen ==
  \/ \E index \in Targets : \E zone \in Zones :
        ld2450_zone[zone].target_in_zone[index] # ld2450_zone[zone].target_in_zone_old[index]
  \/ /\ ld2450_status.pubtimestamp + ld2450_config.tracktime < localtime
     /\ \/ ld2450_config.trackmode \in {LD2450_TRACK_OUT, LD2450_TRACK_INOUT}
        \/ (ld2450_config.trackmode = LD2450_TRACK_IN) /\ (ld2450_status.counter > 0)

\* C12 as stated: a tick emits exactly when some pair has current # previous
\* (before the tick or after its timeout check) or the period is over and
\* the mode permits it
C12_GateWithoutTimeout ==
  [][(ev'.op = "showjson") =>
        (ev'.emitted <=> (GateOpen \/ (ev'.zones # {})))]_vars

\* C12: a tick emits exactly when the inactivity timeout fires on it, or some
\* pair has current # previous, or the period is over since the last emission
\* and the mode permits it (IN with counter > 0, OUT and IN_AND_OUT always, OFF
\* never); so with mode IN, counter 0 and no zone change, or with mode OFF and
\* no zone change, a tick emits only when the timeout fires on it
C12_Gate ==
  [][(ev'.op = "showjson") =>
        /\ ev'.emitted <=> (ev'.fired \/ GateOpen)
        /\ ( /\ ~checkForZoneChanges(ld2450_zone)
             /\ \/ ld2450_config.trackmode = LD2450_TRACK_OFF
                \/ (ld2450_config.trackmode = LD2450_TRACK_IN) /\ (ld2450_status.counter = 0)
             /\ ~ev'.fired ) => ~ev'.emitted]_vars

\* a tick after the period in mode IN with no target in a zone emitted nothing
C12_QuietTickInModeIn ==
  /\ ev.op = "showjson"
  /\ ~ev.emitted
  /\ ld2450_config.trackmode = LD2450_TRACK_IN
  /\ ld2450_status.counter = 0
  /\ ld2450_status.pubtimestamp + ld2450_config.tracktime < localtime

\* C13: the targets an emission lists are, in mode IN, exactly the occupied
\* targets and, in modes OUT and IN_AND_OUT, exactly the targets with dist > 0
C13_TargetsFilteredByMode ==
  ((ev.op = "showjson") /\ ev.emitted) =>
     /\ (ld2450_config.trackmode = LD2450_TRACK_IN) =>
           (ev.targets = {index \in Targets : ld2450_target[index].in_zone})
     /\ (ld2450_config.trackmode \in {LD2450_TRACK_OUT, LD2450_TRACK_INOUT}) =>
           (ev.targets = {index \in Targets : ld2450_target[index].dist > 0})

\* C14: an emission lists exactly the zones in which some target's current
\* occupancy (as the tick's timeout check left it) differs from the previous
\* one, leaves the current occupancy as it is and sets previous to current, so
\* that right after every emission current = previous for every pair
C14_ZoneDeltas ==
  [][((ev'.op = "showjson") /\ ev'.emitted) =>
        /\ ev'.zones = {zone \in Zones : \E index \in Targets :
                          ld2450_zone'[zone].target_in_zone[index] #
                            ld2450_zone[zone].target_in_zone_old[index]}
        /\ ~ev'.fired => \A zone \in Zones :
              ld2450_zone'[zone].target_in_zone = ld2450_zone[zone].target_in_zone
        /\ \A zone \in Zones : \A index \in Targets :
              ld2450_zone'[zone].target_in_zone_old[index] =
                ld2450_zone'[zone].target_in_zone[index]]_vars

\* an emission listed zone 1 alone while zone 2 is enabled and stayed as it was
C14_OnlyFlippedZoneListed ==
  /\ ev.op = "showjson"
  /\ ev.emitted
  /\ ev.zones = {0}
  /\ zoneEnabled(ld2450_config, 1)

(***************************************************************************)
(* Properties of the commands and the stored configuration                 *)
(***************************************************************************)
\* the ld2450_zone commands with a field count other than 1 and 5 or with a
\* zone number outside 1..8
RejectedZoneCommands ==
  {tokens \in ConfigZoneCommands :
     \/ Len(tokens) \notin {1, 5}
     \/ tokens[1] \notin 1 .. LD2450_ZONE_MAX}

\* C15: ld2450_zone with a wrong field count or a zone number outside 1..8 and
\* ld2450_timeout with a payload that is not positive leave the runtime
\* configuration, the stored record, the targets, the occupancy and the counter
\* as they were, and ld2450_zone answers "wrong param"
C15_InvalidArgumentsChangeNothing ==
  [][/\ \A tokens \in RejectedZoneCommands :
          CmdLD2450Zone(tokens) =>
             /\ UNCHANGED <<ld2450_config, rf_code, ld2450_target, ld2450_zone, ld2450_status>>
             /\ ev'.response = <<>>
     /\ \A payload \in RejectedTimeouts :
          CmdLD2450SensorTimeout(payload) =>
             UNCHANGED <<ld2450_config, rf_code, ld2450_target, ld2450_zone, ld2450_status>>]_vars

\* C16: when ld2450_zone or ld2450_reset has completed, every zone of the
\* runtime configuration has x1 <= x2 and y1 <= y2, x1 and x2 within
\* [-6000, 6000], y1 and y2 within [0, 6000]
C16_ZonesNormalized ==
  (ev.op \in {"zone", "reset"}) =>
     \A z \in Zones :
        /\ ld2450_config.zone_x1[z] <= ld2450_config.zone_x2[z]
        /\ ld2450_config.zone_y1[z] <= ld2450_config.zone_y2[z]
        /\ ld2450_config.zone_x1[z] >= 0 - LD2450_DIST_MAX
        /\ ld2450_config.zone_x2[z] <= LD2450_DIST_MAX
        /\ ld2450_config.zone_y1[z] >= 0
        /\ ld2450_config.zone_y2[z] <= LD2450_DIST_MAX

\* the zone bounds of the runtime configuration are multiples of 100 mm
WholeDecimetres ==
  \A z \in Zones :
     /\ ld2450_config.zone_x1[z] % 100 = 0
     /\ ld2450_config.zone_x2[z] % 100 = 0
     /\ ld2450_config.zone_y1[z] % 100 = 0
     /\ ld2450_config.zone_y2[z] % 100 = 0

\* C17 as stated: save leaves the configuration it is given, and a load that
\* follows the save gives that configuration again
C17_RoundTripOfEveryConfig ==
  [][/\ (ev'.op = "save") => (ld2450_config' = ld2450_config)
     /\ ((ev.op = "save") /\ (ev'.op = "load")) => (ld2450_config' = ld2450_config)]_vars

\* C17: for a configuration whose zone bounds are multiples of 100 mm, save
\* leaves the configuration it is given and a load that follows the save gives
\* that configuration again: timeout, period, mode and the four bounds of
\* every zone
C17_RoundTripOfWholeDecimetres ==
  [][WholeDecimetres =>
       /\ (ev'.op = "save") => (ld2450_config' = ld2450_config)
       /\ ((ev.op = "save") /\ (ev'.op = "load")) =>
             (ld2450_config' = ld2450_config) /\ ~ev'.repaired]_vars

\* a configuration other than the defaults was read back from its record
C17_ReadBackSavedConfig ==
  /\ ev.op = "load"
  /\ ~ev.repaired
  /\ ld2450_config.zone_x1[0] = -300
  /\ ld2450_config.zone_y2[7] = 200
  /\ ld2450_config.sensortimeout = 255
  /\ ld2450_config.tracktime = 1
  /\ ld2450_config.trackmode = LD2450_TRACK_OFF

\* the factory defaults: zone 1 is the whole range, the other zones are
\* disabled, period 5 s, mode IN, timeout 5 s
IsFactoryDefaults(cfg) ==
  /\ cfg.tracktime = 5 /\ cfg.trackmode = 1 /\ cfg.sensortimeout = 5
  /\ \A z \in Zones :
        <<cfg.zone_x1[z], cfg.zone_x2[z], cfg.zone_y1[z], cfg.zone_y2[z]>> =
          IF z = 0 THEN <<-6000, 6000, 0, 6000>> ELSE <<0, 0, 0, 0>>

\* the record holds the factory defaults and the checksum of its bytes
RecordHoldsDefaults(rf) ==
  /\ rf[2][2] = 5 /\ rf[2][3] = 1 /\ rf[2][4] = 5
  /\ \A z \in Zones :
        <<rf[ZoneRow(z)][ZonePos(z)], rf[ZoneRow(z)][ZonePos(z) + 1],
          rf[ZoneRow(z)][ZonePos(z) + 2], rf[ZoneRow(z)][ZonePos(z) + 3]>> =
          IF z = 0 THEN <<68, 188, 128, 188>> ELSE <<128, 128, 128, 128>>
  /\ rf[2][0] * 256 + rf[2][1] = LD2450ConfigChecksum(rf)

\* C18: when one byte of a valid record, a checksum byte or a byte the
\* checksum covers, has changed to another value, the next load finds the
\* checksum wrong, makes the factory defaults the runtime configuration and
\* leaves the record holding the defaults with a matching checksum
C18_RepairOnRead ==
  [][((ev.op = "change") /\ (ev'.op = "load")) =>
        /\ ev'.repaired
        /\ IsFactoryDefaults(ld2450_config')
        /\ RecordHoldsDefaults(rf_code')]_vars

\* a load has repaired a record in which a byte between the settings and the
\* zones had changed
C18_RepairedAfterChange ==
  /\ ev.op = "load"
  /\ ev.repaired
  /\ wire.faults = 1
  /\ rf_code[2][5] = 128
  /\ IsFactoryDefaults(ld2450_config)

\* C19: after initialization and after every command, whatever its arguments,
\* the runtime configuration has timeout > 0, period > 0 and a mode of OFF, IN,
\* OUT, IN_AND_OUT, and the stored record holds the same three values
C19_ScalarsValidAndStored ==
  /\ ld2450_config.sensortimeout > 0
  /\ ld2450_config.tracktime > 0
  /\ ld2450_config.trackmode \in
        {LD2450_TRACK_OFF, LD2450_TRACK_IN, LD2450_TRACK_OUT, LD2450_TRACK_INOUT}
  /\ rf_code[2][2] = ld2450_config.tracktime
  /\ rf_code[2][3] = ld2450_config.trackmode
  /\ rf_code[2][4] = ld2450_config.sensortimeout

\* ld2450_track 256,258 was answered "5,2" after ld2450_timeout 300 had set 44 s
C19_TruncatedArgumentsRepaired ==
  /\ ev.op = "track"
  /\ ev.response = <<5, 2>>
  /\ ld2450_config.sensortimeout = 44

(***************************************************************************)
(* Properties of the driver without its sensor                             *)
(***************************************************************************)
\* C20: when the serial port was not set up at startup, the driver is never
\* enabled later and its serial port is never created or started again, and
\* every call of the receive loop and every publication tick leaves targets,
\* occupancy, counter, timestamps and receive buffer as they are and emits
\* nothing
C20_InertWithoutSensor ==
  [][~ld2450_status.enabled =>
        /\ ~ld2450_status'.enabled
        /\ ld2450_status'.pserial = ld2450_status.pserial
        /\ (ev'.op \in {"loop", "json", "publish", "receive", "showjson"}) =>
              /\ UNCHANGED <<ld2450_target, ld2450_zone, ld2450_status, ld2450_received>>
              /\ ~ev'.emitted
              /\ ev'.batches = 0]_vars

\* a tick on a driver whose serial port did not start: the timeout is due and
\* a zone command has marked every zone changed, yet nothing was emitted
C20_TickSkippedWithPendingChange ==
  /\ ~ld2450_status.enabled
  /\ ld2450_status.pserial
  /\ ev.op = "json"
  /\ ~ev.emitted
  /\ checkForZoneChanges(ld2450_zone)
  /\ ld2450_status.lastsensortime + ld2450_config.sensortimeout < localtime

(***************************************************************************)
(* Properties of the receive buffer                                        *)
(***************************************************************************)
\* C21 as stated: the body is emptied when a frame has been decoded and when
\* a byte arrives while the body is at capacity
C21_EmptiedOnFrameAndOverflow ==
  [][(ev'.op = "receive") =>
        /\ (ev'.batches = 1) => (ld2450_received'.idx_body = 0)
        /\ (ld2450_received.idx_body = LD2450_MSG_SIZE_MAX) =>
              (ld2450_received'.idx_body = 0)]_vars

\* C21: the body is emptied when a frame has been decoded; a byte that
\* arrives while the body is at capacity is not stored and leaves the body
\* and its fill level of 32 as they are, unless it completes a header, which
\* restarts the body at 4
C21_EmptiedOnFrameKeptOnOverflow ==
  [][(ev'.op = "receive") =>
        /\ (ev'.batches = 1) => (ld2450_received'.idx_body = 0)
        /\ (ld2450_received.idx_body = LD2450_MSG_SIZE_MAX) =>
              IF HeaderMatch(ld2450_received'.arr_last)
                THEN ld2450_received'.idx_body = 4
                ELSE /\ ld2450_received'.idx_body = LD2450_MSG_SIZE_MAX
                     /\ ld2450_received'.arr_body = ld2450_received.arr_body]_vars

\* a byte arrived while the body was at capacity and the body stayed full
C21_ByteDroppedAtCapacity ==
  /\ ev.op = "receive"
  /\ ev.idx_before = LD2450_MSG_SIZE_MAX
  /\ ld2450_received.idx_body = LD2450_MSG_SIZE_MAX

\* C22: the fill index of the body stays within 0..32 and the body keeps its
\* 32 places; a byte read while the body is full is stored nowhere and leaves
\* the fill index at 32, until a header match sets it to 4
C22_BoundedBody ==
  [][/\ ld2450_received.idx_body \in 0 .. LD2450_MSG_SIZE_MAX
     /\ ld2450_received'.idx_body \in 0 .. LD2450_MSG_SIZE_MAX
     /\ DOMAIN ld2450_received'.arr_body = 0 .. (LD2450_MSG_SIZE_MAX - 1)
     /\ ((ev'.op = "receive") /\ (ld2450_received.idx_body = LD2450_MSG_SIZE_MAX)) =>
           \/ /\ ld2450_received'.idx_body = LD2450_MSG_SIZE_MAX
              /\ ld2450_received'.arr_body = ld2450_received.arr_body
              /\ ev'.batches = 0
           \/ /\ ld2450_received'.idx_body = 4
              /\ \A i \in 0 .. 3 : ld2450_received'.arr_last[i] = HeaderBytes[i + 1]
              /\ \A i \in 0 .. 3 : ld2450_received'.arr_body[i] = HeaderBytes[i + 1]]_vars

\* a header has restarted a body that was full
C22_FullBodyRestartedByHeader ==
  /\ ev.op = "receive"
  /\ ev.idx_before = LD2450_MSG_SIZE_MAX
  /\ ld2450_received.idx_body = 4

(***************************************************************************)
(* Properties of the decoded targets                                       *)
(***************************************************************************)
\* x * x + y * y of a target
SquareSum(index) ==
  ld2450_target[index].x * ld2450_target[index].x +
  ld2450_target[index].y * ld2450_target[index].y

\* C23 as stated: dist is the root of x^2 + y^2 rounded to the nearest
\* integer, within 16 bits: dist - 1/2 <= root < dist + 1/2
C23_DistRoundedToNearest ==
  \A index \in Targets :
     LET d == ld2450_target[index].dist
     IN /\ d \in 0 .. 65535
        /\ (d = 0) \/ (d * d - d < SquareSum(index))
        /\ SquareSum(index) <= d * d + d

\* C23: dist is the root of x^2 + y^2 rounded down to an integer, which is at
\* most 46339 and so fits the unsigned 16 bits for every decodable x and y
C23_DistRoundedDown ==
  \A index \in Targets :
     LET d == ld2450_target[index].dist
     IN /\ d \in 0 .. 65535
        /\ d * d <= SquareSum(index)
        /\ SquareSum(index) < (d + 1) * (d + 1)

\* a target at the largest magnitudes of x and y: the root is 46339.9
C23_LargestTarget ==
  /\ FrameDecoded(ev)
  /\ ld2450_target[0].x = 32767
  /\ ld2450_target[0].y = -32767
  /\ ld2450_target[0].dist = 46339

(***************************************************************************)
(* Properties of the zone commands                                         *)
(***************************************************************************)
\* C24: ld2450_reset, and a load that finds the checksum wrong, leave a
\* runtime configuration with zone 1 = [-6000, 6000] x [0, 6000], every other
\* zone all zero and the timeout 5 s (period 5 s and mode IN as well), and a
\* record that holds these values with a matching checksum; ld2450_reset
\* answers with the bounds of zone 1
C24_FactoryDefaults ==
  ((ev.op = "reset") \/ ((ev.op = "load") /\ ev.repaired)) =>
     /\ IsFactoryDefaults(ld2450_config)
     /\ RecordHoldsDefaults(rf_code)
     /\ (ev.op = "reset") => (ev.response = <<1, -6000, 6000, 0, 6000>>)

\* ld2450_reset has answered after a byte of the record had changed
C24_ResetAnswered ==
  /\ ev.op = "reset"
  /\ ev.response = <<1, -6000, 6000, 0, 6000>>
  /\ wire.faults = 1
  /\ rf_code[3][0] = 68

\* the ld2450_zone commands with five fields, a zone number 1..8, bounds in
\* range and in order, and a bound that is no multiple of 100 mm
FineZoneCommands ==
  {t \in ConfigZoneCommands :
     /\ Len(t) = 5
     /\ t[1] \in 1 .. LD2450_ZONE_MAX
     /\ (0 - LD2450_DIST_MAX <= t[2]) /\ (t[2] <= t[3]) /\ (t[3] <= LD2450_DIST_MAX)
     /\ (0 <= t[4]) /\ (t[4] <= t[5]) /\ (t[5] <= LD2450_DIST_MAX)
     /\ \E i \in 2 .. 5 : t[i] % 100 # 0}

\* the four bounds of a zone in a configuration
ZoneBounds(cfg, z) == <<cfg.zone_x1[z], cfg.zone_x2[z], cfg.zone_y1[z], cfg.zone_y2[z]>>

\* C25 as stated: after such a command the runtime zone and the answer hold
\* the bounds as they were given, in millimetres
C25_RuntimeKeepsMillimetres ==
  [][\A t \in FineZoneCommands :
       CmdLD2450Zone(t) =>
          /\ ZoneBounds(ld2450_config', t[1] - 1) = <<t[2], t[3], t[4], t[5]>>
          /\ ev'.response = t]_vars

\* C25: after an ld2450_zone command whose bounds are in range but no
\* multiples of 100 mm, the runtime zone and the answer hold what the record
\* holds: every bound cut towards zero to a multiple of 100 mm
C25_RuntimeReadBackFromRecord ==
  [][\A t \in FineZoneCommands :
       CmdLD2450Zone(t) =>
          \E z \in {t[1] - 1} :
             /\ ZoneBounds(ld2450_config', z)
                   = <<CDiv(t[2], 100) * 100, CDiv(t[3], 100) * 100,
                       CDiv(t[4], 100) * 100, CDiv(t[5], 100) * 100>>
             /\ ZoneBounds(ld2450_config', z)
                   = <<UnpackBound(rf_code'[ZoneRow(z)][ZonePos(z)]),
                       UnpackBound(rf_code'[ZoneRow(z)][ZonePos(z) + 1]),
                       UnpackBound(rf_code'[ZoneRow(z)][ZonePos(z) + 2]),
                       UnpackBound(rf_code'[ZoneRow(z)][ZonePos(z) + 3])>>
             /\ ev'.response = <<t[1]>> \o ZoneBounds(ld2450_config', z)]_vars

\* ld2450_zone 1,-1550,1550,250,3000 has been answered
C25_FineZoneAnswered ==
  /\ ev.op = "zone"
  /\ ev.response = <<1, -1500, 1500, 200, 3000>>
  /\ ZoneBounds(ld2450_config, 0) = <<-1500, 1500, 200, 3000>>

(***************************************************************************)
(* Properties of the frame decoder, byte by byte                           *)
(***************************************************************************)
\* the byte a receive step takes brings the body to 30 bytes and the last two
\* bytes received to 55 CC
CompletesFrame ==
  /\ uptime > LD2450_START_DELAY
  /\ ld2450_received.idx_body + 1 = FrameLen
  /\ ld2450_received'.arr_last[2] = 85
  /\ ld2450_received'.arr_last[3] = 204

\* C26: a received byte that does not complete a frame gives no batch and
\* changes the body, the last four bytes and the reception timestamp only:
\* targets, occupancy, counter, time of the last detection and configuration
\* stay as they were
C26_IncompleteFrameChangesReceiverOnly ==
  [][((ev'.op = "receive") /\ ~CompletesFrame) =>
        /\ ev'.batches = 0
        /\ UNCHANGED <<ld2450_target, ld2450_zone, ld2450_status, ld2450_config,
                       rf_code>>]_vars

\* the thirtieth byte of a body has arrived and was not CC, with a target held
\* from the frame before
C26_BrokenFooterIgnored ==
  /\ ev.op = "receive"
  /\ ev.batches = 0
  /\ ev.idx_before = FrameLen - 1
  /\ ld2450_received.idx_body = FrameLen
  /\ ld2450_received.arr_last[3] # 204
  /\ ld2450_target[0].dist > 0

\* C27: for a target with dist > 0 and an enabled zone whose occupancy by the
\* target was published before the frame (current = previous), current after
\* the frame is true exactly if x1 <= x <= x2 and y1 <= y <= y2: a target on a
\* corner of the zone is inside, a target 1 mm beyond a bound is outside
C27_InclusiveContainment ==
  [][((ev'.op = "receive") /\ (ev'.batches = 1)) =>
        \A index \in Targets : \A zone \in Zones :
           ( /\ ld2450_target'[index].dist > 0
             /\ zoneEnabled(ld2450_config, zone)
             /\ ld2450_zone[zone].target_in_zone[index]
                  = ld2450_zone[zone].target_in_zone_old[index] ) =>
              (ld2450_zone'[zone].target_in_zone[index]
                 <=> /\ ld2450_config.zone_x1[zone] <= ld2450_target'[index].x
                     /\ ld2450_target'[index].x <= ld2450_config.zone_x2[zone]
                     /\ ld2450_config.zone_y1[zone] <= ld2450_target'[index].y
                     /\ ld2450_target'[index].y <= ld2450_config.zone_y2[zone])]_vars

\* a target on the corner (x2, y2) of zone 2 was found inside the zone, which
\* the tick has not published yet
C27_CornerInside ==
  /\ FrameDecoded(ev)
  /\ ld2450_target[0].x = ld2450_config.zone_x2[1]
  /\ ld2450_target[0].y = ld2450_config.zone_y2[1]
  /\ ld2450_zone[1].target_in_zone[0]
  /\ ~ld2450_zone[1].target_in_zone_old[0]

\* C28: whenever a frame is decoded, bytes 0..3 of the body are AA FF 03 00;
\* a run of 30 bytes that ends in 55 CC but did not start at a header is not
\* decoded
C28_OnlyHeaderPrefixedDecoded ==
  FrameDecoded(ev) =>
     \A i \in 0 .. 3 : ld2450_received.arr_body[i] = HeaderBytes[i + 1]

(***************************************************************************)
(* Properties of the occupancy changes between two emissions               *)
(***************************************************************************)
\* a frame has moved target index into the zone and no emission has reported it
EntryPending(index, zone) ==
  /\ ld2450_zone[zone].target_in_zone[index]
  /\ ~ld2450_zone[zone].target_in_zone_old[index]

\* the step is an emission that lists the zone with the bit of the target 1
EntryReported(index, zone) ==
  /\ ev'.op = "showjson"
  /\ ev'.emitted
  /\ zone \in ev'.zones
  /\ ld2450_zone'[zone].target_in_zone[index]
  /\ ld2450_zone'[zone].target_in_zone_old[index]

CommittedZoneCommands ==
  {t \in ConfigZoneCommands : (Len(t) = 5) /\ (t[1] \in 1 .. LD2450_ZONE_MAX)}

\* every pair of target and zone has current = false and previous = true
AllMarkedChanged ==
  \A index \in Targets : \A zone \in Zones :
     /\ ~ld2450_zone[zone].target_in_zone[index]
     /\ ld2450_zone[zone].target_in_zone_old[index]

\* every target is cleared and the counter is 0
TargetsCleared ==
  /\ \A index \in Targets :
        ld2450_target[index] = [x |-> 0, y |-> 0, speed |-> 0, dist |-> 0, in_zone |-> FALSE]
  /\ ld2450_status.counter = 0

\* C30: a carried out ld2450_zone and ld2450_reset leave every target cleared,
\* the counter 0 and every pair of target and zone with current = false and
\* previous = true; from then on no frame sets a current to true, and the next
\* tick emits and lists all 8 zones with all bits 0
C30_ZoneEditRepublishesAllZones ==
  [][/\ \A t \in CommittedZoneCommands :
          CmdLD2450Zone(t) => (TargetsCleared' /\ AllMarkedChanged')
     /\ CmdLD2450Reset => (TargetsCleared' /\ AllMarkedChanged')
     /\ (AllMarkedChanged /\ (ev'.op = "receive")) => AllMarkedChanged'
     /\ (AllMarkedChanged /\ (ev'.op = "showjson")) =>
          /\ ev'.emitted
          /\ ev'.zones = Zones
          /\ \A index \in Targets : \A zone \in Zones :
                /\ ~ld2450_zone'[zone].target_in_zone[index]
                /\ ~ld2450_zone'[zone].target_in_zone_old[index]]_vars

\* the tick has listed all 8 zones with all bits 0 although a frame decoded
\* since the edit holds target 1 inside the enabled zone 1
C30_AllZonesListedAfterEdit ==
  /\ ev.op = "showjson"
  /\ ev.emitted
  /\ ev.zones = Zones
  /\ \A index \in Targets : \A zone \in Zones : ~ld2450_zone[zone].target_in_zone[index]
  /\ ld2450_target[0].dist > 0
  /\ zoneEnabled(ld2450_config, 0)
  /\ InsideZone(ld2450_config, 0, ld2450_target[0].x, ld2450_target[0].y)
  /\ ld2450_config.zone_x1[0] = -1500

(***************************************************************************)
(* Progress of the publication                                             *)
(***************************************************************************)
\* the sensor is enabled and the pair of target and zone has current # previous
ChangePending(index, zone) ==
  /\ ld2450_status.enabled
  /\ ld2450_status.pserial
  /\ ld2450_zone[zone].target_in_zone[index] # ld2450_zone[zone].target_in_zone_old[index]

\* C31: with the sensor enabled and the tick taken again and again, every pair
\* of target and zone with current # previous reaches current = previous,
\* whatever frames and commands come in between
C31_PendingChangeReconciled ==
  \A index \in Targets : \A zone \in Zones :
     ChangePending(index, zone) ~>
        (ld2450_zone[zone].target_in_zone[index] = ld2450_zone[zone].target_in_zone_old[index])

\* a tick has reported the entry of target 2 into zone 1 and left no pair with
\* current # previous
C31_SecondTargetReconciled ==
  /\ ev.op = "showjson"
  /\ ev.emitted
  /\ 0 \in ev.zones
  /\ ld2450_zone[0].target_in_zone[1]
  /\ ld2450_zone[0].target_in_zone_old[1]
  /\ ~checkForZoneChanges(ld2450_zone)

====
